---------------------------- MODULE Spec2Model ----------------------------
(***************************************************************************)
(* Orchestration core of the voice-assistant client (src/src/application.py)*)
(*                                                                         *)
(* One module, several specifications over the same variables:             *)
(*   SchedSpec / FairSchedSpec : the task scheduler and the dispatch loop  *)
(*       (schedule, _main_loop, _process_scheduled_tasks) with producer    *)
(*       threads and generic callbacks.                                    *)
(*   Spec / FairSpec : the device from start-up: the manual, toggle and    *)
(*       wake-word start flows, stop, network errors, with their worker    *)
(*       threads and session-loop coroutines.                              *)
(*   AbortSpec : the device while SPEAKING: abort_speaking from the        *)
(*       dispatch thread and from UI threads, process_abort, tts stop.     *)
(*                                                                         *)
(* Granularity.  A callback run by the dispatch thread is one step, except *)
(* where it blocks on the session loop (then it is split at the wait).     *)
(* Code run by any other thread is split at every access to shared state   *)
(* that another thread may interleave with.  schedule() called by a thread *)
(* other than a producer of SchedSpec is one step: the inbox and the batch *)
(* of the running drain form one FIFO, so the moment of the flag set does  *)
(* not change the order in which callbacks run.                            *)
(***************************************************************************)
EXTENDS Naturals, Sequences, FiniteSets, Bags, TLC

(***************************************************************************)
(* Bounds of the model (not program constants).                            *)
(***************************************************************************)
\* total number of schedule() calls of generic callbacks in SchedSpec
MaxSched == 3
\* number of producer threads calling schedule() concurrently in SchedSpec
NumProducers == 2
\* number of external events (UI requests, session messages, detections) in Spec
MaxEvents == 2
\* number of external events in AbortSpec
MaxAbortEvents == 2
\* number of generic callbacks that raise in ErrSpec
MaxRaise == 1
\* the state-change subscribers that may register
NumSubscribers == 2
\* how many times AUDIO_OUTPUT_READY_EVENT may be set
MaxSets == 3

(***************************************************************************)
(* Program state.                                                          *)
(***************************************************************************)
VARIABLES
    \* --- scheduler and dispatch loop (application.py 83-97, 253-292)
    main_tasks,     \* self.main_tasks: the inbox, a sequence of callbacks
    batch,          \* local `tasks` of _process_scheduled_tasks still to run
    events,         \* self.events: EventType -> threading.Event (is it set)
    loop_pc,        \* position of the dispatch thread inside _main_loop
    task_pc,        \* position inside the running callback when it blocks ("" otherwise)
    \* --- producer threads of SchedSpec, inside schedule()
    prod_pc,        \* producer -> "idle" | "set" (appended, flag not yet set)
    \* --- observation of the scheduler
    next_id,        \* identity given to the next generic callback
    exec_log,       \* the executed generic callbacks, in order: [id, o, raised]
    since_copy,     \* identities appended since the last copy-and-clear
    enq_during,     \* identities appended while a drain was running its batch
    \* --- device (application.py 63-73, 100-103)
    device_state,   \* self.device_state
    keep_listening, \* self.keep_listening
    aborted,        \* self.aborted
    is_tts_playing, \* self.is_tts_playing
    audio_pending,  \* not self.audio_codec.audio_decode_queue.empty()
    channel_open,   \* self.protocol.is_audio_channel_opened()
    ww,             \* self.wake_word_detector: "absent" | "running" | "paused" | "stopped"
    display_status, \* last text given to display.update_status
    current_emotion,\* self.current_emotion
    \* --- threads and coroutines besides the dispatch thread
    workers,        \* bag of [kind, pc, reason]
    \* --- observation of the device
    hist,           \* states passed to the state-change subscribers, in order
    sent,           \* control messages handed to the session, per kind
    alerts,         \* number of alert() calls
    iot_pushes,     \* number of _update_iot_states(True) calls
    env_log,        \* bag of the external events and outcomes of external calls so far
    budget,         \* external events the environment may still issue
    state_writer,   \* context of the last set_device_state call
    flag_writer,    \* context of the last assignment to keep_listening / aborted
    abort_spawned,  \* process_abort threads started since aborted was last reset
    \* --- state-change subscribers (application.py 90, 662-666, 981-983)
    on_state_changed_callbacks, \* self.on_state_changed_callbacks, in registration order
    notified,       \* the subscriber calls of the last actual state change, in order
    \* --- the AUDIO_OUTPUT_READY event (application.py 353-358, 382-386, 571-594)
    trig_pc,        \* thread -> "idle" | "write" | "queue" | "set": where it is
                    \* between its check of device_state and its set() of the event
    out_sets,       \* the threads that set the event since it was last cleared, in order
    out_total,      \* set() calls of the event so far
    out_handled,    \* _handle_output_audio invocations so far
    out_collapsed,  \* out_sets as the last tick that handled the event found it
    out_set_in,     \* <<thread, device_state at that moment>> of every set() so far
    \* --- the AUDIO_INPUT_READY event (application.py 294-306, 551-569)
    in_pc,          \* the input trigger thread: "idle" | "set" (state checked, flag not yet set)
    in_total,       \* set() calls of the event so far
    in_handled,     \* _handle_input_audio invocations so far
    frames_sent,    \* frames handed to protocol.send_audio so far
    \* --- the life of the loops and the audio streams (application.py 253-273,
    \* 498-549, 551-594, 985-1017)
    running,        \* self.running
    streams         \* audio_codec.input_stream / output_stream: "none" | "inactive" |
                    \* "active"; self.input_event_thread / output_event_thread:
                    \* "none" | "alive" | "dead"; input_alive / output_alive: the
                    \* trigger threads of each kind that are alive

schedVars == <<main_tasks, batch, events, loop_pc, task_pc>>
prodVars  == <<prod_pc, next_id, exec_log, since_copy, enq_during>>
devVars   == <<device_state, keep_listening, aborted, is_tts_playing, audio_pending,
               channel_open, ww, display_status, current_emotion>>
obsVars   == <<hist, notified, sent, alerts, iot_pushes, env_log, budget, state_writer,
               flag_writer, abort_spawned>>
audioVars == <<trig_pc, out_sets, out_total, out_handled, out_collapsed, out_set_in>>
inputVars == <<in_pc, in_total, in_handled, frames_sent>>
lifeVars  == <<running, streams>>
auxVars   == <<on_state_changed_callbacks, audioVars, inputVars, lifeVars>>
appVars   == <<devVars, workers, obsVars, auxVars>>
vars      == <<schedVars, prodVars, appVars>>

(***************************************************************************)
(* EventType (src.constants.constants, used at application.py 93-97): the  *)
(* dict self.events is built in this order and _main_loop iterates it in   *)
(* this order.                                                             *)
(***************************************************************************)
SCHEDULE_EVENT           == "SCHEDULE_EVENT"
AUDIO_INPUT_READY_EVENT  == "AUDIO_INPUT_READY_EVENT"
AUDIO_OUTPUT_READY_EVENT == "AUDIO_OUTPUT_READY_EVENT"
EventTypes == {SCHEDULE_EVENT, AUDIO_INPUT_READY_EVENT, AUDIO_OUTPUT_READY_EVENT}

Producers == 1..NumProducers

\* the threads that set AUDIO_OUTPUT_READY_EVENT: _audio_output_event_trigger
\* and the session loop running _on_incoming_audio
AudioThreads == {"trigger", "session"}

\* A callback handed to schedule(): kind k, argument a, identity id (generic
\* callbacks only) and o, the source line of the schedule() call.
Task(k, a, id, o) == [k |-> k, a |-> a, id |-> id, o |-> o]
GenTask(id, o)    == Task("Gen", "", id, o)

(***************************************************************************)
(* schedule(callback), application.py 288-292.                             *)
(*   with self.mutex: self.main_tasks.append(callback)                     *)
(*   self.events[SCHEDULE_EVENT].set()                                     *)
(* ScheduleAppend is the critical section, ScheduleSet the flag set that   *)
(* follows it outside the lock.                                            *)
(***************************************************************************)
ScheduleAppend(q, t) == Append(q, t)
ScheduleSetNone(ev)  == ev
ScheduleSet(ev)      == [ev EXCEPT ![SCHEDULE_EVENT] = TRUE]

\* the bookkeeping of one append of callback i
NoteDuring(i) == IF loop_pc = "run" THEN enq_during \cup {i} ELSE enq_during

(***************************************************************************)
(* _process_scheduled_tasks, application.py 277-279: under the mutex the   *)
(* inbox is copied and cleared.  DrainTaken is what the drain runs,        *)
(* DrainLeft what stays in the inbox.                                      *)
(***************************************************************************)
DrainLeftKeepsAll(q) == q
DrainTakenReversed(q) == [n \in 1..Len(q) |-> q[Len(q) + 1 - n]]
DrainTaken(q) == q
DrainLeft(q)  == <<>>

(***************************************************************************)
(* Producer threads (any thread but the dispatch thread) calling schedule. *)
(***************************************************************************)
ProducerAppend(p) ==
    /\ prod_pc[p] = "idle"
    /\ next_id <= MaxSched
    /\ main_tasks' = ScheduleAppend(main_tasks, GenTask(next_id, p))
    /\ since_copy' = since_copy \cup {next_id}
    /\ enq_during' = NoteDuring(next_id)
    /\ next_id' = next_id + 1
    /\ prod_pc' = [prod_pc EXCEPT ![p] = "set"]
    /\ UNCHANGED <<batch, events, loop_pc, task_pc, exec_log, appVars>>

ProducerSet(p) ==
    /\ prod_pc[p] = "set"
    /\ events' = ScheduleSet(events)
    /\ prod_pc' = [prod_pc EXCEPT ![p] = "idle"]
    /\ UNCHANGED <<main_tasks, batch, loop_pc, task_pc, next_id, exec_log, since_copy,
                   enq_during, appVars>>

(***************************************************************************)
(* _main_loop, application.py 258-273: one tick looks at the three events  *)
(* in dict order; an event that is set is cleared, then handled.  A tick   *)
(* that finds no event set changes nothing and is not a step of the model. *)
(***************************************************************************)
\* where the tick goes on after the SCHEDULE_EVENT part: to the audio events if
\* one is set, to the sleep and the next tick otherwise
AfterInput == IF events[AUDIO_OUTPUT_READY_EVENT] THEN "audio" ELSE "sched"
AfterScheduleOutputFirst ==
    IF events[AUDIO_OUTPUT_READY_EVENT] THEN "audio"
    ELSE IF events[AUDIO_INPUT_READY_EVENT] THEN "input" ELSE "sched"
AfterSchedule == IF events[AUDIO_INPUT_READY_EVENT] THEN "input" ELSE AfterInput

\* 262: event.clear()
EventClearKept(ev, e) == ev
EventClear(ev, e) == [ev EXCEPT ![e] = FALSE]

\* 258, 553, 573: while self.running, read at the top of an iteration
WhileRunningAlways(r) == TRUE
WhileRunning(r) == r

\* 258, 261-262, 269-270 for SCHEDULE_EVENT: a new iteration; is_set / clear
LoopCheckSchedule ==
    /\ loop_pc = "sched"
    /\ WhileRunning(running)
    /\ IF events[SCHEDULE_EVENT]
       THEN /\ events' = EventClear(events, SCHEDULE_EVENT)
            /\ loop_pc' = "drain"
       ELSE /\ loop_pc' = AfterSchedule
            /\ UNCHANGED events
    /\ UNCHANGED <<main_tasks, batch, task_pc, prodVars, appVars>>

\* the position of the loop when `left` is what remains of the drain's batch
\* (282: the for loop ends when nothing remains)
LoopAfter(left) == IF left = <<>> THEN AfterSchedule ELSE "run"

\* 277-279: copy and clear under the mutex
LoopDrain ==
    /\ loop_pc = "drain"
    /\ batch' = DrainTaken(main_tasks)
    /\ main_tasks' = DrainLeft(main_tasks)
    /\ since_copy' = {}
    /\ loop_pc' = LoopAfter(batch')
    /\ UNCHANGED <<events, task_pc, prod_pc, next_id, exec_log, enq_during, appVars>>

\* the record of one execution of callback t; raised: it ended by an exception
Execution(t, raised) == [id |-> t.id, o |-> t.o, raised |-> raised]

(***************************************************************************)
(* 282-284: the drain runs the next callback of its batch.  A generic      *)
(* callback records its execution; `again` is whether it calls schedule()  *)
(* itself (a task enqueued by a running task).                             *)
(***************************************************************************)
RunGen(again) ==
    /\ loop_pc = "run"
    /\ batch # <<>>
    /\ Head(batch).k = "Gen"
    /\ batch' = Tail(batch)
    /\ exec_log' = Append(exec_log, Execution(Head(batch), FALSE))
    /\ IF again /\ next_id <= MaxSched
       THEN /\ main_tasks' = ScheduleAppend(main_tasks, GenTask(next_id, 0))
            /\ events' = ScheduleSet(events)
            /\ since_copy' = since_copy \cup {next_id}
            /\ enq_during' = NoteDuring(next_id)
            /\ next_id' = next_id + 1
       ELSE UNCHANGED <<main_tasks, events, since_copy, enq_during, next_id>>
    /\ loop_pc' = LoopAfter(batch')
    /\ UNCHANGED <<task_pc, prod_pc, appVars>>

\* 285-286: what is left of the batch when its head has raised: the except
\* clause is inside the for loop, so the loop goes on with the next callback
BatchAfterRaiseNone(b) == <<>>
BatchAfterRaise(b) == Tail(b)

\* 282-286: the callback at the head of the batch raises; the exception is
\* caught and logged
RunGenRaise ==
    /\ loop_pc = "run"
    /\ batch # <<>>
    /\ Head(batch).k = "Gen"
    /\ Len(SelectSeq(exec_log, LAMBDA e : e.raised)) < MaxRaise
    /\ exec_log' = Append(exec_log, Execution(Head(batch), TRUE))
    /\ batch' = BatchAfterRaise(batch)
    /\ loop_pc' = LoopAfter(batch')
    /\ UNCHANGED <<main_tasks, events, task_pc, prod_pc, next_id, since_copy,
                   enq_during, appVars>>

LoopSched == LoopCheckSchedule \/ LoopDrain

(***************************************************************************)
(* DeviceState, AbortReason (src.constants.constants).                     *)
(***************************************************************************)
IDLE       == "IDLE"
CONNECTING == "CONNECTING"
LISTENING  == "LISTENING"
SPEAKING   == "SPEAKING"
DeviceStates == {IDLE, CONNECTING, LISTENING, SPEAKING}

NONE               == "NONE"
WAKE_WORD_DETECTED == "WAKE_WORD_DETECTED"

\* the contexts that run code of the application
DISPATCH == "dispatch"     \* the thread of _main_loop
WORKER   == "worker"       \* a threading.Thread started by a flow
SESSION  == "session"      \* the asyncio loop thread (callbacks, coroutines)
UI       == "ui"           \* display threads (keyboard, buttons, hotkeys)

(***************************************************************************)
(* The wake-word detector (src/audio_processing, not part of src/): the    *)
(* interface the application uses.  pause() pauses a running detector,     *)
(* resume() resumes a paused one, is_running() is true while it runs       *)
(* unpaused, .paused while it is paused.                                   *)
(***************************************************************************)
WwPause(w)     == IF w = "running" THEN "paused" ELSE w
WwResume(w)    == IF w = "paused" THEN "running" ELSE w
WwIsRunning(w) == w = "running"
WwPaused(w)    == w = "paused"

\* _get_status_text / display.update_status texts, application.py 625-650
StatusText(s) ==
    CASE s = IDLE       -> "Standby"
      [] s = CONNECTING -> "Connecting..."
      [] s = LISTENING  -> "Listening..."
      [] s = SPEAKING   -> "Speaking..."

(***************************************************************************)
(* set_device_state(state), application.py 616-666, called by context who. *)
(***************************************************************************)
\* 618-619: the early return
SetStateNoGuard(cur, s) == FALSE
SetStateIsNoop(cur, s) == cur = s

\* 629-630, 642-643, 651-652: what the entry actions do to the detector
EntryWwNone(s, w) == w
EntryWw(s, w) ==
    CASE s = IDLE       -> WwResume(w)
      [] s = CONNECTING -> w
      [] s = LISTENING  -> WwPause(w)
      [] s = SPEAKING   -> WwResume(w)

\* 662-666: the subscribers called for new state s, in the order of the list,
\* when rs[n] tells whether the n-th raises: the try/except is inside the loop,
\* so all Len(cbs) of them are called
NotifyCountUntilRaise(cbs, rs) ==
    IF \E n \in 1..Len(cbs) : rs[n]
    THEN CHOOSE n \in 1..Len(cbs) : rs[n] /\ \A m \in 1..(n - 1) : ~rs[m]
    ELSE Len(cbs)
NotifyCount(cbs, rs) == Len(cbs)

Notify(cbs, s, rs) ==
    [n \in 1..NotifyCount(cbs, rs) |-> [cb |-> cbs[n], state |-> s, raised |-> rs[n]]]

SetDeviceState(s, who) ==
    /\ state_writer' = who
    /\ IF SetStateIsNoop(device_state, s)
       THEN UNCHANGED <<device_state, display_status, current_emotion, ww,
                        iot_pushes, hist, notified>>
       ELSE /\ device_state' = s
            /\ display_status' = StatusText(s)
            /\ current_emotion' = IF s \in {IDLE, LISTENING} THEN "neutral"
                                  ELSE current_emotion
            /\ iot_pushes' = IF s = LISTENING THEN iot_pushes + 1 ELSE iot_pushes
            /\ ww' = EntryWw(s, ww)
            /\ hist' = Append(hist, s)
            /\ \E rs \in [1..Len(on_state_changed_callbacks) -> BOOLEAN] :
                   notified' = Notify(on_state_changed_callbacks, s, rs)

\* on_state_changed(callback), application.py 981-983, and gui_display.py 321:
\* subscriber cb is appended to the list.  A subscriber is named by its rank
\* of registration.
Subscribers == 1..NumSubscribers

Register(cb) ==
    /\ cb = Len(on_state_changed_callbacks) + 1
    /\ on_state_changed_callbacks' = Append(on_state_changed_callbacks, cb)
    /\ UNCHANGED <<schedVars, prodVars, devVars, workers, obsVars, audioVars, lifeVars>>
    /\ UNCHANGED inputVars

\* what set_device_state may change
setStateVars == <<device_state, display_status, current_emotion, ww, iot_pushes,
                  hist, notified, state_writer>>

(***************************************************************************)
(* Helpers for the handlers.                                               *)
(***************************************************************************)
\* schedule(lambda: self.set_device_state(s)) written at source line o
SetStateTask(s, o) == Task("SetState", s, 0, o)

\* the handler calls schedule() for each task of ts, in order
Schedule(ts) ==
    /\ main_tasks' = main_tasks \o ts
    /\ events' = IF ts = <<>> THEN events ELSE ScheduleSet(events)

\* threading.Thread(target=...).start() / run_coroutine_threadsafe(coroutine)
Worker(kind, pc, reason) == [kind |-> kind, pc |-> pc, reason |-> reason]
One(w)        == SetToBag({w})
Workers       == BagToSet(workers)

Log(e)  == env_log' = env_log (+) One(e)
\* an external event e happens
Issue(e) == budget > 0 /\ budget' = budget - 1 /\ Log(e)
Bump(f) == sent' = [sent EXCEPT ![f] = @ + 1]

\* a dispatch-thread callback of kind k is next and not in the middle of a wait
Running(k) ==
    /\ loop_pc = "run"
    /\ batch # <<>>
    /\ Head(batch).k = k
Starts(k) == Running(k) /\ task_pc = ""
\* the callback returns
Return == batch' = Tail(batch) /\ task_pc' = "" /\ loop_pc' = LoopAfter(batch')

(***************************************************************************)
(* abort_speaking(reason), application.py 921-972, up to the start of the  *)
(* process_abort thread.  AbortAccepts is the check of 924, AbortAct the   *)
(* body 929-945 and 972 run by context who; rest is the bag of the other   *)
(* threads.                                                                *)
(***************************************************************************)
AbortAccepts(ab) == ~ab

\* 932: set_is_tts_playing(False)
PlayingAfterAbortKept(playing) == playing
PlayingAfterAbort(playing) == FALSE

AbortAct(reason, who, rest) ==
    /\ aborted' = TRUE
    /\ flag_writer' = who
    /\ is_tts_playing' = PlayingAfterAbort(is_tts_playing)
    /\ audio_pending' = FALSE
    /\ ww' = IF reason = WAKE_WORD_DETECTED /\ WwIsRunning(ww) THEN WwPause(ww) ELSE ww
    /\ workers' = rest (+) One(Worker("process_abort", "send", reason))
    /\ abort_spawned' = abort_spawned + 1

abortVars == <<aborted, flag_writer, is_tts_playing, audio_pending, ww, workers,
               abort_spawned>>

\* the whole call, made by the dispatch thread inside a callback
AbortSpeaking(reason) ==
    IF AbortAccepts(aborted)
    THEN AbortAct(reason, DISPATCH, workers)
    ELSE UNCHANGED abortVars

(***************************************************************************)
(* Callbacks run by the dispatch thread (one action per callback kind).    *)
(***************************************************************************)
\* lambda: self.set_device_state(state)
RunSetState ==
    /\ Starts("SetState")
    /\ SetDeviceState(Head(batch).a, DISPATCH)
    /\ Return
    /\ UNCHANGED <<budget, main_tasks, events, prodVars, keep_listening, aborted,
                   is_tts_playing, audio_pending, channel_open, workers, sent,
                   alerts, env_log, flag_writer, abort_spawned>>
    /\ UNCHANGED auxVars

\* _start_listening_impl, application.py 750-763 and 805-807: up to the wait
\* for open_audio_channel (IDLE), or the abort (SPEAKING)
StartGuard(ds) == ds = IDLE

RunStartImpl ==
    /\ Starts("StartImpl")
    /\ keep_listening' = FALSE
    /\ flag_writer' = DISPATCH
    /\ IF StartGuard(device_state)
       THEN /\ ww' = WwPause(ww)
            /\ Schedule(<<SetStateTask(CONNECTING, 763)>>)
            /\ task_pc' = "open"
            /\ UNCHANGED <<batch, loop_pc, aborted, is_tts_playing, audio_pending,
                           workers, abort_spawned>>
       ELSE /\ Return
            /\ UNCHANGED <<main_tasks, events>>
            /\ IF device_state = SPEAKING /\ ~aborted
               THEN AbortAct(WAKE_WORD_DETECTED, DISPATCH, workers)
               ELSE /\ ww' = WwPause(ww)
                    /\ UNCHANGED <<aborted, is_tts_playing, audio_pending, workers,
                                   abort_spawned>>
    /\ UNCHANGED <<budget, prodVars, device_state, channel_open, display_status,
                   current_emotion, hist, notified, sent, alerts, iot_pushes, env_log,
                   state_writer>>
    /\ UNCHANGED auxVars

\* the outcomes of protocol.open_audio_channel() seen by a caller that waits
OpenOutcomes(open) ==
    IF open THEN {"already_open"}
    ELSE {"open_ok", "open_false", "open_raise", "open_timeout"}
OpenSucceeded(o) == o \in {"already_open", "open_ok"}
\* audio_codec._reinitialize_input_stream() returns or raises
ReinitOutcomes(o) == IF OpenSucceeded(o) THEN {"reinit_ok", "reinit_raise"} ELSE {"none"}
\* the outcomes that are choices of the environment, as a bag
LogOf(o) == IF o \in {"already_open", "none"} THEN EmptyBag ELSE SetToBag({o})

\* ListeningMode.MANUAL at 801 (a field of `sent`)
ManualModeAuto == "auto"
ManualMode == "manual"

\* what 776-777 / 782-783 / 794 / 800-804 hand to schedule()
StartImplTasks(o, r) ==
    CASE o = "open_false"   -> <<SetStateTask(IDLE, 777)>>
      [] o \in {"open_raise", "open_timeout"} -> <<SetStateTask(IDLE, 783)>>
      [] r = "reinit_raise" -> <<SetStateTask(IDLE, 794)>>
      [] OTHER              -> <<SetStateTask(LISTENING, 804)>>

\* alert() calls of the manual flow: 776 and 782
StartImplAlerts(o, r) == IF OpenSucceeded(o) THEN 0 ELSE 1

\* _start_listening_impl, application.py 765-804: from the result of the wait on
RunStartImplOpen(o, r) ==
    /\ Running("StartImpl")
    /\ task_pc = "open"
    /\ o \in OpenOutcomes(channel_open)
    /\ r \in ReinitOutcomes(o)
    /\ channel_open' = (channel_open \/ o = "open_ok")
    /\ alerts' = alerts + StartImplAlerts(o, r)
    /\ Schedule(StartImplTasks(o, r))
    /\ sent' = IF r = "reinit_ok" THEN [sent EXCEPT ![ManualMode] = @ + 1] ELSE sent
    /\ ww' = IF r = "reinit_raise" THEN WwResume(ww) ELSE ww
    /\ env_log' = env_log (+) LogOf(o) (+) LogOf(r)
    /\ Return
    /\ UNCHANGED <<budget, prodVars, device_state, keep_listening, aborted, is_tts_playing,
                   audio_pending, display_status, current_emotion, workers, hist, notified,
                   iot_pushes, state_writer, flag_writer, abort_spawned>>
    /\ UNCHANGED auxVars

\* 914: the stop request is effective in LISTENING only
StopGuardAlways(ds) == TRUE
StopGuard(ds) == ds = LISTENING

\* _stop_listening_impl, application.py 912-919
RunStopImpl ==
    /\ Starts("StopImpl")
    /\ IF StopGuard(device_state)
       THEN /\ Bump("stop")
            /\ SetDeviceState(IDLE, DISPATCH)
       ELSE UNCHANGED <<sent, setStateVars>>
    /\ Return
    /\ UNCHANGED <<budget, main_tasks, events, prodVars, keep_listening, aborted,
                   is_tts_playing, audio_pending, channel_open, workers, alerts,
                   env_log, flag_writer, abort_spawned>>
    /\ UNCHANGED auxVars

\* what 906 hands to schedule()
ToggleListeningTasksNone == <<>>
ToggleListeningTasks == <<SetStateTask(IDLE, 906)>>

\* _toggle_chat_state_impl, application.py 826-906 (the threads it starts are
\* ConnectAndListen* and CloseAudioChannel below)
RunToggleImpl ==
    /\ Starts("ToggleImpl")
    /\ CASE device_state = IDLE ->
              /\ Schedule(<<SetStateTask(CONNECTING, 835)>>)
              /\ workers' = workers (+) One(Worker("connect_and_listen", "open", NONE))
              /\ UNCHANGED <<aborted, flag_writer, is_tts_playing, audio_pending, ww,
                             abort_spawned>>
         [] device_state = SPEAKING ->
              /\ AbortSpeaking(NONE)
              /\ UNCHANGED <<main_tasks, events>>
         [] device_state = LISTENING ->
              /\ workers' = workers (+) One(Worker("close_audio_channel", "close", NONE))
              /\ Schedule(ToggleListeningTasks)
              /\ UNCHANGED <<aborted, flag_writer, is_tts_playing, audio_pending, ww,
                             abort_spawned>>
         [] OTHER ->
              UNCHANGED <<main_tasks, events, abortVars>>
    /\ Return
    /\ UNCHANGED <<budget, prodVars, device_state, keep_listening, channel_open,
                   display_status, current_emotion, hist, notified, sent, alerts, iot_pushes,
                   env_log, state_writer>>
    /\ UNCHANGED auxVars

\* lambda: self.toggle_chat_state() scheduled at 969: toggle_chat_state, 819-824,
\* run by the dispatch thread
RunToggleChat ==
    /\ Starts("ToggleChat")
    /\ ww' = WwPause(ww)
    /\ Schedule(<<Task("ToggleImpl", "", 0, 824)>>)
    /\ Return
    /\ UNCHANGED <<prodVars, device_state, keep_listening, aborted, is_tts_playing,
                   audio_pending, channel_open, display_status, current_emotion,
                   workers, obsVars>>
    /\ UNCHANGED auxVars

\* _handle_wake_word_detected, application.py 1100-1115
RunWakeWord ==
    /\ Starts("WakeWord")
    /\ CASE device_state = IDLE ->
              /\ ww' = WwPause(ww)
              /\ Schedule(<<SetStateTask(CONNECTING, 1108)>>)
              /\ workers' = workers (+)
                    One(Worker("connect_and_start_listening", "connect", NONE))
              /\ UNCHANGED <<aborted, flag_writer, is_tts_playing, audio_pending,
                             abort_spawned>>
         [] device_state = SPEAKING ->
              /\ AbortSpeaking(WAKE_WORD_DETECTED)
              /\ UNCHANGED <<main_tasks, events>>
         [] OTHER ->
              UNCHANGED <<main_tasks, events, abortVars>>
    /\ Return
    /\ UNCHANGED <<budget, prodVars, device_state, keep_listening, channel_open,
                   display_status, current_emotion, hist, notified, sent, alerts, iot_pushes,
                   env_log, state_writer>>
    /\ UNCHANGED auxVars

\* 440-441: what _handle_tts_start schedules when it finds the device in state s
TtsStartTasksAlways(s) == <<SetStateTask(SPEAKING, 441)>>
TtsStartTasks(s) ==
    IF s \in {IDLE, LISTENING} THEN <<SetStateTask(SPEAKING, 441)>> ELSE <<>>

\* _handle_tts_start, application.py 433-441
RunTtsStart ==
    /\ Starts("TtsStart")
    /\ aborted' = FALSE
    /\ flag_writer' = DISPATCH
    /\ abort_spawned' = 0
    /\ is_tts_playing' = TRUE
    /\ audio_pending' = FALSE
    /\ Schedule(TtsStartTasks(device_state))
    /\ Return
    /\ UNCHANGED <<budget, prodVars, device_state, keep_listening, channel_open, ww,
                   display_status, current_emotion, workers, hist, notified, sent, alerts,
                   iot_pushes, env_log, state_writer>>
    /\ UNCHANGED auxVars

\* 449, 483: what _handle_tts_stop schedules when it finds the device in state s
TtsStopTasksAlways(s) == <<Task("Dsc", "", 0, 483)>>
TtsStopTasks(s) == IF s = SPEAKING THEN <<Task("Dsc", "", 0, 483)>> ELSE <<>>

\* _handle_tts_stop, application.py 447-449 and 483
RunTtsStop ==
    /\ Starts("TtsStop")
    /\ Schedule(TtsStopTasks(device_state))
    /\ Return
    /\ UNCHANGED <<prodVars, devVars, workers, obsVars>>
    /\ UNCHANGED auxVars

\* delayed_state_change, application.py 451-479, run by the dispatch thread
\* (483); the waits of 458-466 end by themselves
RunDsc ==
    /\ Starts("Dsc")
    /\ is_tts_playing' = FALSE
    /\ IF keep_listening
       THEN /\ Bump("auto")
            /\ Schedule(<<SetStateTask(LISTENING, 477)>>)
       ELSE /\ Schedule(<<SetStateTask(IDLE, 479)>>)
            /\ UNCHANGED sent
    /\ Return
    /\ UNCHANGED <<budget, prodVars, device_state, keep_listening, aborted, audio_pending,
                   channel_open, ww, display_status, current_emotion, workers, hist, notified,
                   alerts, iot_pushes, env_log, state_writer, flag_writer,
                   abort_spawned>>
    /\ UNCHANGED auxVars

(***************************************************************************)
(* The AUDIO_OUTPUT_READY event.                                           *)
(***************************************************************************)
\* the set() of 386 and 590 by thread t, with what it leaves to observe
OutputEventSet(t) ==
    /\ events' = [events EXCEPT ![AUDIO_OUTPUT_READY_EVENT] = TRUE]
    /\ out_sets' = Append(out_sets, t)
    /\ out_total' = out_total + 1
    /\ out_set_in' = out_set_in \cup {<<t, device_state>>}
    /\ trig_pc' = [trig_pc EXCEPT ![t] = "idle"]

\* a thread may begin one more set() of an audio event
MaySet ==
    out_total + in_total + Cardinality({t \in AudioThreads : trig_pc[t] # "idle"}) < MaxSets

audioRestVars == <<schedVars, prodVars, devVars, workers, obsVars,
                   on_state_changed_callbacks, lifeVars>>

\* _on_incoming_audio, application.py 384: the session finds the device SPEAKING
\* (when it does not, the callback does nothing)
IncomingCheck ==
    /\ trig_pc[SESSION] = "idle"
    /\ channel_open
    /\ MaySet
    /\ device_state = SPEAKING
    /\ trig_pc' = [trig_pc EXCEPT ![SESSION] = "write"]
    /\ UNCHANGED <<audioRestVars, out_sets, out_total, out_handled, out_collapsed,
                   out_set_in>>
    /\ UNCHANGED inputVars

\* 385: audio_codec.write_audio(data)
IncomingWrite ==
    /\ trig_pc[SESSION] = "write"
    /\ audio_pending' = TRUE
    /\ trig_pc' = [trig_pc EXCEPT ![SESSION] = "set"]
    /\ UNCHANGED <<schedVars, prodVars, device_state, keep_listening, aborted,
                   is_tts_playing, channel_open, ww, display_status, current_emotion,
                   workers, obsVars, on_state_changed_callbacks, lifeVars, out_sets, out_total,
                   out_handled, out_collapsed, out_set_in>>
    /\ UNCHANGED inputVars

\* 386
IncomingSet ==
    /\ trig_pc[SESSION] = "set"
    /\ OutputEventSet(SESSION)
    /\ UNCHANGED <<main_tasks, batch, loop_pc, task_pc, prodVars, devVars, workers,
                   obsVars, on_state_changed_callbacks, lifeVars, out_handled, out_collapsed>>
    /\ UNCHANGED inputVars

\* the trigger thread's start_stream() calls are bounded like the set() calls
MayStart ==
    CopiesIn("trigger_start_ok", env_log) + CopiesIn("trigger_start_fail", env_log) < MaxSets

\* _audio_output_event_trigger, application.py 576-580: the trigger thread finds
\* the device SPEAKING (when it does not, it sleeps and looks again) and looks
\* whether the output stream is active
TriggerCheck ==
    /\ trig_pc["trigger"] = "idle"
    /\ WhileRunning(running)
    /\ MaySet
    /\ device_state = SPEAKING
    /\ streams.output_stream # "none"
    /\ streams.output_stream = "inactive" => MayStart
    /\ trig_pc' = [trig_pc EXCEPT !["trigger"] =
                      IF streams.output_stream = "inactive" THEN "start" ELSE "queue"]
    /\ UNCHANGED <<audioRestVars, out_sets, out_total, out_handled, out_collapsed,
                   out_set_in>>
    /\ UNCHANGED inputVars

\* 589: not audio_decode_queue.empty()
TriggerQueue ==
    /\ trig_pc["trigger"] = "queue"
    /\ trig_pc' = [trig_pc EXCEPT !["trigger"] = IF audio_pending THEN "set" ELSE "idle"]
    /\ UNCHANGED <<audioRestVars, out_sets, out_total, out_handled, out_collapsed,
                   out_set_in>>
    /\ UNCHANGED inputVars

\* 590
TriggerSet ==
    /\ trig_pc["trigger"] = "set"
    /\ OutputEventSet("trigger")
    /\ UNCHANGED <<main_tasks, batch, loop_pc, task_pc, prodVars, devVars, workers,
                   obsVars, on_state_changed_callbacks, lifeVars, out_handled, out_collapsed>>
    /\ UNCHANGED inputVars

(***************************************************************************)
(* The AUDIO_INPUT_READY event.                                            *)
(***************************************************************************)
\* _audio_input_event_trigger, application.py 556: the condition under which the
\* trigger thread sets the event (the codec has an input stream)
InputTriggerAlways(ds) == TRUE
InputTriggerGuard(ds) == ds = LISTENING

\* 556: the trigger thread finds the condition true (when it does not, it
\* sleeps and looks again)
InputCheck ==
    /\ in_pc = "idle"
    /\ WhileRunning(running)
    /\ MaySet
    /\ InputTriggerGuard(device_state)
    /\ in_pc' = "set"
    /\ UNCHANGED <<audioRestVars, audioVars, in_total, in_handled, frames_sent>>

\* 557
InputSet ==
    /\ in_pc = "set"
    /\ events' = [events EXCEPT ![AUDIO_INPUT_READY_EVENT] = TRUE]
    /\ in_total' = in_total + 1
    /\ in_pc' = "idle"
    /\ UNCHANGED <<main_tasks, batch, loop_pc, task_pc, prodVars, devVars, workers,
                   obsVars, on_state_changed_callbacks, lifeVars, audioVars, in_handled,
                   frames_sent>>

\* _handle_input_audio, application.py 296-306: the frames handed to the session
\* when the handler runs in state ds, the channel open or not, and read_audio()
\* returned a frame or nothing
InputFramesAnyState(ds, open, frame) == IF frame /\ open THEN 1 ELSE 0
InputFrames(ds, open, frame) == IF ds = LISTENING /\ frame /\ open THEN 1 ELSE 0

\* _main_loop, application.py 260-266, for AUDIO_INPUT_READY_EVENT: the tick
\* finds the event set, clears it and calls _handle_input_audio
LoopCheckInput ==
    /\ loop_pc = "input"
    /\ IF events[AUDIO_INPUT_READY_EVENT]
       THEN /\ events' = EventClear(events, AUDIO_INPUT_READY_EVENT)
            /\ in_handled' = in_handled + 1
            /\ \E frame \in BOOLEAN :
                   frames_sent' = frames_sent + InputFrames(device_state, channel_open, frame)
       ELSE UNCHANGED <<events, in_handled, frames_sent>>
    /\ loop_pc' = AfterInput
    /\ UNCHANGED <<main_tasks, batch, task_pc, prodVars, devVars, workers, obsVars,
                   on_state_changed_callbacks, lifeVars, audioVars, in_pc, in_total>>

(***************************************************************************)
(* _main_loop, application.py 260-268, for AUDIO_OUTPUT_READY_EVENT: the   *)
(* tick finds the event set, clears it and calls _handle_output_audio      *)
(* (353-358), which does nothing unless the device is SPEAKING.            *)
(* play_audio (audio_codec, not part of src/) plays what is queued, all of *)
(* it or not.                                                              *)
(***************************************************************************)
LoopCheckOutput ==
    /\ loop_pc = "audio"
    /\ IF events[AUDIO_OUTPUT_READY_EVENT]
       THEN /\ events' = EventClear(events, AUDIO_OUTPUT_READY_EVENT)
            /\ out_handled' = out_handled + 1
            /\ out_collapsed' = out_sets
            /\ out_sets' = <<>>
            /\ IF device_state = SPEAKING
               THEN /\ is_tts_playing' = TRUE
                    /\ audio_pending' \in {audio_pending, FALSE}
               ELSE UNCHANGED <<is_tts_playing, audio_pending>>
       ELSE UNCHANGED <<events, out_handled, out_collapsed, out_sets, is_tts_playing,
                        audio_pending>>
    /\ loop_pc' = "sched"
    /\ UNCHANGED <<main_tasks, batch, task_pc, prodVars, device_state, keep_listening,
                   aborted, channel_open, ww, display_status, current_emotion, workers,
                   obsVars, on_state_changed_callbacks, lifeVars, trig_pc, out_total, out_set_in>>
    /\ UNCHANGED inputVars

(***************************************************************************)
(* Threads and coroutines started by the flows.                            *)
(***************************************************************************)
Is(w, kind, pc) == w \in Workers /\ w.kind = kind /\ w.pc = pc
Finish(w)       == workers' = workers (-) One(w)
Goto(w, pc)     == workers' = (workers (-) One(w)) (+) One([w EXCEPT !.pc = pc])

\* what connect_and_listen hands to schedule() when the open fails: 851, 856, 862
ConnectFailTasksNone(o) == <<>>
ConnectFailTasks(o) ==
    CASE o = "open_timeout" -> <<SetStateTask(IDLE, 851)>>
      [] o = "open_raise"   -> <<SetStateTask(IDLE, 856)>>
      [] o = "open_false"   -> <<SetStateTask(IDLE, 862)>>

\* connect_and_listen, application.py 837-869: open the channel, wait <= 5 s
ConnectAndListenOpen(w, o) ==
    /\ Is(w, "connect_and_listen", "open")
    /\ o \in OpenOutcomes(channel_open)
    /\ env_log' = env_log (+) LogOf(o)
    /\ IF OpenSucceeded(o)
       THEN /\ channel_open' = TRUE
            /\ Goto(w, "listen")
            /\ UNCHANGED <<main_tasks, events, alerts>>
       ELSE /\ Schedule(ConnectFailTasks(o))
            /\ alerts' = alerts + 1
            /\ Finish(w)
            /\ UNCHANGED channel_open
    /\ UNCHANGED <<budget, batch, loop_pc, task_pc, prodVars, device_state, keep_listening,
                   aborted, is_tts_playing, audio_pending, ww, display_status,
                   current_emotion, hist, notified, sent, iot_pushes, state_writer,
                   flag_writer, abort_spawned>>
    /\ UNCHANGED auxVars

\* connect_and_listen, application.py 871-882: keep_listening, start-listening
\* AUTO_STOP, LISTENING; the except branch calls set_device_state itself
ConnectAndListenStart(w, o) ==
    /\ Is(w, "connect_and_listen", "listen")
    /\ o \in {"send_ok", "send_raise"}
    /\ keep_listening' = TRUE
    /\ flag_writer' = WORKER
    /\ Log(o)
    /\ IF o = "send_ok"
       THEN /\ Bump("auto")
            /\ Schedule(<<SetStateTask(LISTENING, 878)>>)
            /\ UNCHANGED <<setStateVars, alerts>>
       ELSE /\ SetDeviceState(IDLE, WORKER)
            /\ alerts' = alerts + 1
            /\ UNCHANGED <<main_tasks, events, sent>>
    /\ Finish(w)
    /\ UNCHANGED <<budget, batch, loop_pc, task_pc, prodVars, aborted, is_tts_playing,
                   audio_pending, channel_open, abort_spawned>>
    /\ UNCHANGED auxVars

\* close_audio_channel, application.py 894-902 (and the coroutine of 377-380):
\* the close takes effect or not
CloseAudioChannel(w, o) ==
    /\ Is(w, "close_audio_channel", "close")
    /\ o \in {"close_ok", "close_fail"}
    /\ channel_open' = IF o = "close_ok" THEN FALSE ELSE channel_open
    /\ Log(o)
    /\ Finish(w)
    /\ UNCHANGED <<budget, schedVars, prodVars, device_state, keep_listening, aborted,
                   is_tts_playing, audio_pending, ww, display_status,
                   current_emotion, hist, notified, sent, alerts, iot_pushes, state_writer,
                   flag_writer, abort_spawned>>
    /\ UNCHANGED auxVars

\* process_abort, application.py 950-958: the abort control message is sent, or
\* the send raises or exceeds its 1 s wait (the exception is logged)
ProcessAbortSend(w, o) ==
    /\ Is(w, "process_abort", "send")
    /\ o \in {"abort_sent", "abort_fail"}
    /\ IF o = "abort_sent" THEN Bump("abort") ELSE UNCHANGED sent
    /\ Log(o)
    /\ Goto(w, "state")
    /\ UNCHANGED <<budget, schedVars, prodVars, devVars, hist, notified, alerts, iot_pushes,
                   state_writer, flag_writer, abort_spawned>>
    /\ UNCHANGED auxVars

\* 964-966: is the auto-listen flow to be re-entered
AbortResumes(reason, kl, open) == reason = WAKE_WORD_DETECTED /\ kl /\ open

\* process_abort, application.py 962-966
ProcessAbortState(w) ==
    /\ Is(w, "process_abort", "state")
    /\ Schedule(<<SetStateTask(IDLE, 962)>>)
    /\ IF AbortResumes(w.reason, keep_listening, channel_open)
       THEN Goto(w, "resume")
       ELSE Finish(w)
    /\ UNCHANGED <<batch, loop_pc, task_pc, prodVars, devVars, obsVars>>
    /\ UNCHANGED auxVars

\* process_abort, application.py 968-969
ProcessAbortResume(w) ==
    /\ Is(w, "process_abort", "resume")
    /\ Schedule(<<Task("ToggleChat", "", 0, 969)>>)
    /\ Finish(w)
    /\ UNCHANGED <<batch, loop_pc, task_pc, prodVars, devVars, obsVars>>
    /\ UNCHANGED auxVars

\* _connect_and_start_listening, application.py 1120-1127: protocol.connect()
WwConnect(w, o) ==
    /\ Is(w, "connect_and_start_listening", "connect")
    /\ o \in {"connect_ok", "connect_false", "connect_raise"}
    /\ Log(o)
    /\ CASE o = "connect_ok" ->
              /\ Goto(w, "open")
              /\ UNCHANGED <<main_tasks, events, alerts, ww>>
         [] o = "connect_false" ->
              /\ alerts' = alerts + 1
              /\ Schedule(<<SetStateTask(IDLE, 1123)>>)
              /\ ww' = WwResume(ww)
              /\ Finish(w)
         [] o = "connect_raise" ->
              /\ Finish(w)
              /\ UNCHANGED <<main_tasks, events, alerts, ww>>
    /\ UNCHANGED <<budget, batch, loop_pc, task_pc, prodVars, device_state, keep_listening,
                   aborted, is_tts_playing, audio_pending, channel_open,
                   display_status, current_emotion, hist, notified, sent, iot_pushes,
                   state_writer, flag_writer, abort_spawned>>
    /\ UNCHANGED auxVars

\* _connect_and_start_listening, application.py 1130-1143: open the channel,
\* announce the wake word, keep_listening, start-listening AUTO_STOP, LISTENING
WwOpen(w, o) ==
    /\ Is(w, "connect_and_start_listening", "open")
    /\ o \in {"open_ok", "open_false", "open_raise"}
    /\ Log(o)
    /\ CASE o = "open_ok" ->
              /\ channel_open' = TRUE
              /\ sent' = [sent EXCEPT !["wake"] = @ + 1, !["auto"] = @ + 1]
              /\ keep_listening' = TRUE
              /\ flag_writer' = SESSION
              /\ Schedule(<<SetStateTask(LISTENING, 1143)>>)
              /\ UNCHANGED <<alerts, ww>>
         [] o = "open_false" ->
              /\ Schedule(<<SetStateTask(IDLE, 1132)>>)
              /\ alerts' = alerts + 1
              /\ ww' = WwResume(ww)
              /\ UNCHANGED <<channel_open, sent, keep_listening, flag_writer>>
         [] o = "open_raise" ->
              UNCHANGED <<main_tasks, events, alerts, ww, channel_open, sent,
                          keep_listening, flag_writer>>
    /\ Finish(w)
    /\ UNCHANGED <<budget, batch, loop_pc, task_pc, prodVars, device_state, aborted,
                   is_tts_playing, audio_pending, display_status, current_emotion,
                   hist, notified, iot_pushes, state_writer, abort_spawned>>
    /\ UNCHANGED auxVars

\* abort_speaking called by a display thread (abort_callback, 233-235 and
\* 243-245): the check of 924 ...
UiAbortCheck(w) ==
    /\ Is(w, "abort_speaking", "check")
    /\ IF AbortAccepts(aborted) THEN Goto(w, "act") ELSE Finish(w)
    /\ UNCHANGED <<schedVars, prodVars, devVars, obsVars>>
    /\ UNCHANGED auxVars

\* ... and the body 929-972
UiAbortAct(w) ==
    /\ Is(w, "abort_speaking", "act")
    /\ AbortAct(w.reason, UI, workers (-) One(w))
    /\ UNCHANGED <<budget, schedVars, prodVars, device_state, keep_listening, channel_open,
                   display_status, current_emotion, hist, notified, sent, alerts, iot_pushes,
                   env_log, state_writer>>
    /\ UNCHANGED auxVars

(***************************************************************************)
(* The environment: display threads, the session, the detector.            *)
(***************************************************************************)
\* press_callback = start_listening, application.py 746-748
EnvStartListening ==
    /\ Issue("start")
    /\ Schedule(<<Task("StartImpl", "", 0, 748)>>)
    /\ UNCHANGED <<batch, loop_pc, task_pc, prodVars, devVars, workers, hist, notified, sent,
                   alerts, iot_pushes, state_writer, flag_writer, abort_spawned>>
    /\ UNCHANGED auxVars

\* release_callback = stop_listening, application.py 908-910
EnvStopListening ==
    /\ Issue("stop")
    /\ Schedule(<<Task("StopImpl", "", 0, 910)>>)
    /\ UNCHANGED <<batch, loop_pc, task_pc, prodVars, devVars, workers, hist, notified, sent,
                   alerts, iot_pushes, state_writer, flag_writer, abort_spawned>>
    /\ UNCHANGED auxVars

\* auto_callback = toggle_chat_state, application.py 819-824, on a display thread
EnvToggle ==
    /\ Issue("toggle")
    /\ ww' = WwPause(ww)
    /\ Schedule(<<Task("ToggleImpl", "", 0, 824)>>)
    /\ UNCHANGED <<batch, loop_pc, task_pc, prodVars, device_state, keep_listening,
                   aborted, is_tts_playing, audio_pending, channel_open,
                   display_status, current_emotion, workers, hist, notified, sent, alerts,
                   iot_pushes, state_writer, flag_writer, abort_spawned>>
    /\ UNCHANGED auxVars

\* abort_callback, application.py 233-235 / 243-245: a display thread enters
\* abort_speaking(AbortReason.WAKE_WORD_DETECTED)
EnvAbort ==
    /\ Issue("abort")
    /\ workers' = workers (+) One(Worker("abort_speaking", "check", WAKE_WORD_DETECTED))
    /\ UNCHANGED <<schedVars, prodVars, devVars, hist, notified, sent, alerts, iot_pushes,
                   state_writer, flag_writer, abort_spawned>>
    /\ UNCHANGED auxVars

\* _on_mode_changed, application.py 1019-1028, called by the display thread with
\* the requested mode: 1022, the mode may change only in IDLE
ModeChangeAcceptsAlways(s) == TRUE
ModeChangeAccepts(s) == s = IDLE

\* the names of a request for auto_mode and of the value returned
ModeRequest(auto_mode) == IF auto_mode THEN "set_auto" ELSE "set_manual"
ModeReturn(ok) == IF ok THEN "mode_true" ELSE "mode_false"

OnModeChanged(auto_mode) ==
    /\ budget > 0
    /\ budget' = budget - 1
    /\ env_log' = env_log (+) SetToBag({ModeRequest(auto_mode),
                                        ModeReturn(ModeChangeAccepts(device_state))})
    /\ IF ModeChangeAccepts(device_state)
       THEN /\ keep_listening' = auto_mode
            /\ UNCHANGED alerts
       ELSE /\ alerts' = alerts + 1
            /\ UNCHANGED keep_listening
    /\ UNCHANGED <<schedVars, prodVars, device_state, aborted, is_tts_playing, audio_pending,
                   channel_open, ww, display_status, current_emotion, workers, hist,
                   notified, sent, iot_pushes, state_writer, flag_writer, abort_spawned>>
    /\ UNCHANGED auxVars

\* _on_wake_word_detected, application.py 1095-1098, called by a running detector
EnvWakeWord ==
    /\ WwIsRunning(ww)
    /\ Issue("wake_word")
    /\ Schedule(<<Task("WakeWord", "", 0, 1098)>>)
    /\ UNCHANGED <<batch, loop_pc, task_pc, prodVars, devVars, workers, hist, notified, sent,
                   alerts, iot_pushes, state_writer, flag_writer, abort_spawned>>
    /\ UNCHANGED auxVars

\* 366, 371-373: the transitions _on_network_error hands to schedule()
NetErrorTasksNone(ds) == <<>>
NetErrorTasks(ds) ==
    IF ds # CONNECTING
    THEN <<SetStateTask(IDLE, 366), SetStateTask(IDLE, 373)>>
    ELSE <<SetStateTask(IDLE, 366)>>

\* 371, 376-380: is a close of the audio channel requested
NetErrorCloses(ds) == ds # CONNECTING

\* _on_network_error, application.py 360-380, on the session loop
EnvNetworkError ==
    /\ Issue("net_error")
    /\ keep_listening' = FALSE
    /\ flag_writer' = SESSION
    /\ ww' = WwResume(ww)
    /\ Schedule(NetErrorTasks(device_state))
    /\ workers' = IF NetErrorCloses(device_state)
                  THEN workers (+) One(Worker("close_audio_channel", "close", NONE))
                  ELSE workers
    /\ UNCHANGED <<batch, loop_pc, task_pc, prodVars, device_state, aborted,
                   is_tts_playing, audio_pending, channel_open, display_status,
                   current_emotion, hist, notified, sent, alerts, iot_pushes, state_writer,
                   abort_spawned>>
    /\ UNCHANGED auxVars

\* _on_incoming_json / _handle_tts_message, application.py 414-420: the session
\* delivers {"type": "tts", "state": "start" | "stop"} over the open channel
EnvTts(state) ==
    /\ channel_open
    /\ Issue(IF state = "start" THEN "tts_start" ELSE "tts_stop")
    /\ Schedule(IF state = "start" THEN <<Task("TtsStart", "", 0, 418)>>
                ELSE <<Task("TtsStop", "", 0, 420)>>)
    /\ UNCHANGED <<batch, loop_pc, task_pc, prodVars, devVars, workers, hist, notified, sent,
                   alerts, iot_pushes, state_writer, flag_writer, abort_spawned>>
    /\ UNCHANGED auxVars

\* _send_text_tts, application.py 308-351, a coroutine of the session started by
\* the display (gui_display.py 1190-1198) with a text that yields audio frames:
\* the channel is opened if it is closed and the device IDLE (317-323); unless
\* that open fails, SPEAKING is scheduled (331)
SendTextOutcomes(open, ds) ==
    IF ~open /\ ds = IDLE THEN {"open_ok", "open_false"} ELSE {"none"}

EnvSendText(o) ==
    /\ o \in SendTextOutcomes(channel_open, device_state)
    /\ budget > 0
    /\ budget' = budget - 1
    /\ env_log' = env_log (+) One("send_text") (+) LogOf(o)
    /\ channel_open' = (channel_open \/ o = "open_ok")
    /\ Schedule(IF o = "open_false" THEN <<>> ELSE <<SetStateTask(SPEAKING, 331)>>)
    /\ UNCHANGED <<batch, loop_pc, task_pc, prodVars, device_state, keep_listening,
                   aborted, is_tts_playing, audio_pending, ww, display_status,
                   current_emotion, workers, hist, notified, sent, alerts, iot_pushes,
                   state_writer, flag_writer, abort_spawned>>
    /\ UNCHANGED auxVars

(***************************************************************************)
(* The audio streams and the end of the loops.                             *)
(***************************************************************************)
\* the streams in state st, the trigger threads in state th, n of each alive
StreamsAt(st, th, n) ==
    [input_stream |-> st, output_stream |-> st,
     input_event_thread |-> th, output_event_thread |-> th,
     input_alive |-> n, output_alive |-> n]

\* _on_audio_channel_opened, application.py 498-510, called by the session when
\* the channel opens (_update_iot_states(False) pushes nothing that is counted)
OnAudioChannelOpened ==
    /\ Issue("opened")
    /\ channel_open' = TRUE
    /\ Schedule(<<Task("StartStreams", "", 0, 501)>>)
    /\ UNCHANGED <<batch, loop_pc, task_pc, prodVars, device_state, keep_listening,
                   aborted, is_tts_playing, audio_pending, ww, display_status,
                   current_emotion, workers, hist, notified, sent, alerts, iot_pushes,
                   state_writer, flag_writer, abort_spawned>>
    /\ UNCHANGED auxVars

\* 516, 524, 580: start_stream() is called on a stream that was found existing
\* and not active
StreamStarts(st) == st = "inactive"
\* 517, 525, 582: start_stream() returns or raises
StartOutcomes == {"start_ok", "start_fail"}
\* 519-522, 527-530, 583-585: only a failed start reinitializes;
\* _reinitialize_*_stream (audio_codec, not part of src/) leaves the stream active
\* or not, or raises
ReinitResults(o) == IF o = "start_fail" THEN {"active", "inactive", "raise"} ELSE {"none"}
StreamAfter(st, o, r) ==
    CASE o = "start_ok" -> "active"
      [] o = "start_fail" /\ r # "raise" -> r
      [] OTHER -> st
\* what a start_stream() by `who` with outcome o and reinitialization r logs, the
\* stream being in state st at the call
StreamEvent(who, e) == who \o "_" \o e
StreamLog(who, st, o, r) ==
    (IF o = "skip" THEN EmptyBag ELSE One(StreamEvent(who, o)))
        (+) (IF r = "none" THEN EmptyBag ELSE One(StreamEvent(who, "reinit")))
        (+) (IF o # "skip" /\ st = "active" THEN One(StreamEvent(who, "restart"))
             ELSE EmptyBag)

\* 533, 540: a trigger thread is started when there is none or it is not alive
ThreadStarts(th) == th # "alive"

\* 532-545: the trigger threads are started, the streams being s
StartTriggerThreads(s) ==
    LET startIn  == ThreadStarts(s.input_event_thread)
        startOut == ThreadStarts(s.output_event_thread)
    IN  /\ streams' =
              [s EXCEPT !.input_event_thread  = "alive",
                        !.output_event_thread = "alive",
                        !.input_alive  = @ + (IF startIn THEN 1 ELSE 0),
                        !.output_alive = @ + (IF startOut THEN 1 ELSE 0)]
        /\ in_pc' = IF startIn THEN "idle" ELSE in_pc
        /\ trig_pc' = IF startOut THEN [trig_pc EXCEPT !["trigger"] = "idle"] ELSE trig_pc

\* _start_audio_streams, application.py 513-524, run by the dispatch thread
\* (501): the input stream is started if it is not active, then the output
\* stream is looked at; when that is active or missing the function goes on to
\* the threads (532-545).  An exception of a reinitialization ends the function
\* (548-549).
RunStartStreams(oi, ri) ==
    /\ Starts("StartStreams")
    /\ oi \in (IF StreamStarts(streams.input_stream) THEN StartOutcomes ELSE {"skip"})
    /\ ri \in ReinitResults(oi)
    /\ LET s == [streams EXCEPT !.input_stream = StreamAfter(@, oi, ri)]
       IN  CASE ri = "raise" ->
                  /\ streams' = s
                  /\ Return
                  /\ UNCHANGED <<in_pc, trig_pc>>
             [] ri # "raise" /\ StreamStarts(streams.output_stream) ->
                  /\ streams' = s
                  /\ task_pc' = "output"
                  /\ UNCHANGED <<batch, loop_pc, in_pc, trig_pc>>
             [] OTHER ->
                  /\ StartTriggerThreads(s)
                  /\ Return
    /\ env_log' = env_log (+) StreamLog("input", streams.input_stream, oi, ri)
    /\ UNCHANGED <<main_tasks, events, prodVars, devVars, workers, hist, notified, sent,
                   alerts, iot_pushes, budget, state_writer, flag_writer, abort_spawned,
                   on_state_changed_callbacks, running, out_sets, out_total, out_handled,
                   out_collapsed, out_set_in, in_total, in_handled, frames_sent>>

\* 525-545: start_stream() of the output stream that 524 found not active, then
\* the threads
RunStartStreamsOutput(oo, ro) ==
    /\ Running("StartStreams")
    /\ task_pc = "output"
    /\ oo \in StartOutcomes
    /\ ro \in ReinitResults(oo)
    /\ LET s == [streams EXCEPT !.output_stream = StreamAfter(@, oo, ro)]
       IN  IF ro = "raise"
           THEN streams' = s /\ UNCHANGED <<in_pc, trig_pc>>
           ELSE StartTriggerThreads(s)
    /\ Return
    /\ env_log' = env_log (+) StreamLog("output", streams.output_stream, oo, ro)
    /\ UNCHANGED <<main_tasks, events, prodVars, devVars, workers, hist, notified, sent,
                   alerts, iot_pushes, budget, state_writer, flag_writer, abort_spawned,
                   on_state_changed_callbacks, running, out_sets, out_total, out_handled,
                   out_collapsed, out_set_in, in_total, in_handled, frames_sent>>

\* _audio_output_event_trigger, application.py 581-585: the trigger thread starts
\* the output stream that 580 found not active; an exception of the
\* reinitialization ends the iteration (591-592)
TriggerStart(o, r) ==
    /\ trig_pc["trigger"] = "start"
    /\ o \in StartOutcomes
    /\ r \in ReinitResults(o)
    /\ streams' = [streams EXCEPT !.output_stream = StreamAfter(@, o, r)]
    /\ env_log' = env_log (+) StreamLog("trigger", streams.output_stream, o, r)
    /\ trig_pc' = [trig_pc EXCEPT !["trigger"] = IF r = "raise" THEN "idle" ELSE "queue"]
    /\ UNCHANGED <<schedVars, prodVars, devVars, workers, hist, notified, sent, alerts,
                   iot_pushes, budget, state_writer, flag_writer, abort_spawned,
                   on_state_changed_callbacks, running, out_sets, out_total, out_handled,
                   out_collapsed, out_set_in>>
    /\ UNCHANGED inputVars

\* shutdown, application.py 985-1017, called by the display when it closes:
\* running is cleared, the codec closes its streams, the channel is closed if the
\* session gets to it before its loop stops (995-1003), the detector is stopped
Shutdown ==
    /\ Issue("shutdown")
    /\ running' = FALSE
    /\ streams' = [streams EXCEPT !.input_stream = "none", !.output_stream = "none"]
    /\ channel_open' \in {channel_open, FALSE}
    /\ ww' = IF ww = "absent" THEN ww ELSE "stopped"
    /\ UNCHANGED <<schedVars, prodVars, device_state, keep_listening, aborted,
                   is_tts_playing, audio_pending, display_status, current_emotion,
                   workers, hist, notified, sent, alerts, iot_pushes, state_writer,
                   flag_writer, abort_spawned, on_state_changed_callbacks, audioVars,
                   inputVars>>

\* 258: the dispatch loop finds running cleared at the top of an iteration
LoopExit ==
    /\ loop_pc = "sched"
    /\ ~WhileRunning(running)
    /\ loop_pc' = "exited"
    /\ UNCHANGED <<main_tasks, batch, events, task_pc, prodVars, appVars>>

\* 553: the input trigger thread finds running cleared
InputExit ==
    /\ in_pc = "idle"
    /\ streams.input_event_thread = "alive"
    /\ ~WhileRunning(running)
    /\ in_pc' = "exited"
    /\ streams' = [streams EXCEPT !.input_event_thread = "dead", !.input_alive = @ - 1]
    /\ UNCHANGED <<schedVars, prodVars, devVars, workers, obsVars,
                   on_state_changed_callbacks, running, audioVars, in_total, in_handled,
                   frames_sent>>

\* 573: the output trigger thread finds running cleared
TriggerExit ==
    /\ trig_pc["trigger"] = "idle"
    /\ streams.output_event_thread = "alive"
    /\ ~WhileRunning(running)
    /\ trig_pc' = [trig_pc EXCEPT !["trigger"] = "exited"]
    /\ streams' = [streams EXCEPT !.output_event_thread = "dead", !.output_alive = @ - 1]
    /\ UNCHANGED <<schedVars, prodVars, devVars, workers, obsVars,
                   on_state_changed_callbacks, running, out_sets, out_total, out_handled,
                   out_collapsed, out_set_in>>
    /\ UNCHANGED inputVars

(***************************************************************************)
(* Initial states.                                                         *)
(***************************************************************************)
SentKinds == {"manual", "auto", "abort", "stop", "wake"}

\* the scheduler as __init__ leaves it, application.py 83-97
SchedulerInit ==
    /\ main_tasks = <<>>
    /\ batch = <<>>
    /\ events = [e \in EventTypes |-> FALSE]
    /\ loop_pc = "sched"
    /\ task_pc = ""

ProducersInit ==
    /\ prod_pc = [p \in Producers |-> "idle"]
    /\ next_id = 1
    /\ exec_log = <<>>
    /\ since_copy = {}
    /\ enq_during = {}

\* no subscriber yet (90); the trigger thread and the session idle, the event
\* never set
AuxInit ==
    /\ on_state_changed_callbacks = <<>>
    /\ trig_pc = [t \in AudioThreads |-> "idle"]
    /\ out_sets = <<>>
    /\ out_total = 0
    /\ out_handled = 0
    /\ out_collapsed = <<>>
    /\ out_set_in = {}
    /\ in_pc = "idle"
    /\ in_total = 0
    /\ in_handled = 0
    /\ frames_sent = 0

ObserverInit ==
    /\ hist = <<>>
    /\ notified = <<>>
    /\ sent = [k \in SentKinds |-> 0]
    /\ alerts = 0
    /\ iot_pushes = 0
    /\ state_writer = "none"
    /\ flag_writer = "none"
    /\ abort_spawned = 0

\* the device as __init__ leaves it, application.py 63-73, 100-103; the detector
\* is there or not by configuration (1033-1062)
DeviceInit ==
    /\ device_state = IDLE
    /\ keep_listening = FALSE
    /\ aborted = FALSE
    /\ is_tts_playing = FALSE
    /\ audio_pending = FALSE
    /\ channel_open = FALSE
    /\ ww \in {"absent", "running"}
    /\ display_status = ""
    /\ current_emotion = "neutral"
    /\ workers = EmptyBag
    /\ running = TRUE
    /\ streams = StreamsAt("inactive", "none", 0)

SchedInit ==
    /\ SchedulerInit
    /\ ProducersInit
    /\ DeviceInit
    /\ ObserverInit
    /\ AuxInit
    /\ budget = 0
    /\ env_log = EmptyBag

Init ==
    /\ SchedulerInit
    /\ ProducersInit
    /\ DeviceInit
    /\ ObserverInit
    /\ AuxInit
    /\ budget = MaxEvents
    /\ env_log = EmptyBag

\* the device while it speaks, with nothing pending: the state that the toggle
\* flow (keep_listening, 871) or the manual flow (not keep_listening, 756)
\* followed by a tts start (433-441) leaves behind, the output stream being
\* active or not (580)
AbortInitWith(out) ==
    /\ SchedulerInit
    /\ ProducersInit
    /\ ObserverInit
    /\ AuxInit
    /\ budget = MaxAbortEvents
    /\ device_state = SPEAKING
    /\ keep_listening \in BOOLEAN
    /\ aborted = FALSE
    /\ is_tts_playing = TRUE
    /\ audio_pending = FALSE
    /\ channel_open = TRUE
    /\ ww \in {"absent", "running"}
    /\ display_status = StatusText(SPEAKING)
    /\ current_emotion = "neutral"
    /\ workers = EmptyBag
    /\ running = TRUE
    /\ streams = [StreamsAt("active", "alive", 1) EXCEPT !.output_stream = out]
    /\ env_log = SetToBag({IF keep_listening THEN "auto_mode" ELSE "manual_mode"})

\* ... with the output stream active
AbortInit == AbortInitWith("active")

(***************************************************************************)
(* Specifications.                                                         *)
(***************************************************************************)
SchedNext ==
    \/ \E p \in Producers : ProducerAppend(p)
    \/ \E p \in Producers : ProducerSet(p)
    \/ LoopCheckSchedule
    \/ LoopDrain
    \/ \E again \in BOOLEAN : RunGen(again)

SchedSpec == SchedInit /\ [][SchedNext]_vars

\* the dispatch thread keeps running and a thread inside schedule() finishes it
SchedFairness ==
    /\ WF_vars(LoopSched)
    /\ WF_vars(\E again \in BOOLEAN : RunGen(again))
    /\ WF_vars(\E p \in Producers : ProducerSet(p))

FairSchedSpec == SchedSpec /\ SchedFairness

\* the scheduler with callbacks that raise
RunGenAny == (\E again \in BOOLEAN : RunGen(again)) \/ RunGenRaise
ErrNext == SchedNext \/ RunGenRaise
ErrSpec == SchedInit /\ [][ErrNext]_vars
FairErrSpec ==
    /\ ErrSpec
    /\ WF_vars(LoopSched)
    /\ WF_vars(RunGenAny)
    /\ WF_vars(\E p \in Producers : ProducerSet(p))

\* the two steps of _start_listening_impl
RunStart ==
    \/ RunStartImpl
    \/ \E o \in OpenOutcomes(channel_open) : \E r \in ReinitOutcomes(o) :
            RunStartImplOpen(o, r)

\* the device from start-up: the start flows, stop and network errors
RunAny ==
    \/ RunSetState
    \/ RunStart
    \/ RunStopImpl
    \/ RunToggleImpl
    \/ RunWakeWord

WorkerStep ==
    \/ \E w \in Workers : \E o \in OpenOutcomes(channel_open) : ConnectAndListenOpen(w, o)
    \/ \E w \in Workers : \E o \in {"send_ok", "send_raise"} : ConnectAndListenStart(w, o)
    \/ \E w \in Workers : \E o \in {"close_ok", "close_fail"} : CloseAudioChannel(w, o)
    \/ \E w \in Workers : \E o \in {"connect_ok", "connect_false", "connect_raise"} :
            WwConnect(w, o)
    \/ \E w \in Workers : \E o \in {"open_ok", "open_false", "open_raise"} : WwOpen(w, o)

EnvStep ==
    \/ EnvStartListening
    \/ EnvStopListening
    \/ EnvToggle
    \/ EnvWakeWord
    \/ EnvNetworkError

Next == LoopSched \/ RunAny \/ WorkerStep \/ EnvStep

Spec == Init /\ [][Next]_vars

\* the dispatch thread keeps running; every wait of a callback is bounded
DispatchFairness == WF_vars(LoopSched) /\ WF_vars(RunAny)

FairSpec == Spec /\ DispatchFairness

\* the toggle flow alone, with network errors
ToggleRun == RunSetState \/ RunToggleImpl
ToggleNext ==
    \/ LoopSched
    \/ ToggleRun
    \/ \E w \in Workers : \E o \in OpenOutcomes(channel_open) : ConnectAndListenOpen(w, o)
    \/ \E w \in Workers : \E o \in {"send_ok", "send_raise"} : ConnectAndListenStart(w, o)
    \/ \E w \in Workers : \E o \in {"close_ok", "close_fail"} : CloseAudioChannel(w, o)
    \/ EnvToggle
    \/ EnvNetworkError

ToggleSpec == Init /\ [][ToggleNext]_vars

\* the dispatch thread keeps running; the threads of the flow need not
FairToggleSpec == ToggleSpec /\ WF_vars(LoopSched) /\ WF_vars(ToggleRun)

\* the toggle flow with subscribers registering at any time
SubNext ==
    \/ LoopSched
    \/ ToggleRun
    \/ \E w \in Workers : \E o \in OpenOutcomes(channel_open) : ConnectAndListenOpen(w, o)
    \/ \E w \in Workers : \E o \in {"send_ok", "send_raise"} : ConnectAndListenStart(w, o)
    \/ EnvToggle
    \/ \E cb \in Subscribers : Register(cb)
SubSpec == Init /\ [][SubNext]_vars

\* the device while SPEAKING with audio arriving, until the tts stops
AudioInit == AbortInit
AudioNext ==
    \/ LoopSched
    \/ LoopCheckOutput
    \/ RunSetState
    \/ RunTtsStop
    \/ RunDsc
    \/ IncomingCheck
    \/ IncomingWrite
    \/ IncomingSet
    \/ TriggerCheck
    \/ TriggerQueue
    \/ TriggerSet
    \/ EnvTts("stop")

AudioSpec == AudioInit /\ [][AudioNext]_vars

\* the device while SPEAKING
AbortNext ==
    \/ LoopSched
    \/ RunSetState
    \/ RunToggleImpl
    \/ RunToggleChat
    \/ RunWakeWord
    \/ RunTtsStop
    \/ RunDsc
    \/ \E w \in Workers : \E o \in OpenOutcomes(channel_open) : ConnectAndListenOpen(w, o)
    \/ \E w \in Workers : \E o \in {"send_ok", "send_raise"} : ConnectAndListenStart(w, o)
    \/ \E w \in Workers : \E o \in {"close_ok", "close_fail"} : CloseAudioChannel(w, o)
    \/ \E w \in Workers : \E o \in {"abort_sent", "abort_fail"} : ProcessAbortSend(w, o)
    \/ \E w \in Workers : ProcessAbortState(w)
    \/ \E w \in Workers : ProcessAbortResume(w)
    \/ \E w \in Workers : UiAbortCheck(w)
    \/ \E w \in Workers : UiAbortAct(w)
    \/ EnvToggle
    \/ EnvAbort
    \/ EnvWakeWord
    \/ EnvTts("stop")

AbortSpec == AbortInit /\ [][AbortNext]_vars

\* the device while SPEAKING and, after the tts stop of a conversation that keeps
\* listening, while LISTENING: the three events of the dispatch loop
LoopTick == LoopSched \/ LoopCheckInput \/ LoopCheckOutput
TickRun == RunSetState \/ RunTtsStop \/ RunDsc
TickNext ==
    \/ LoopTick
    \/ TickRun
    \/ IncomingCheck
    \/ IncomingWrite
    \/ IncomingSet
    \/ InputCheck
    \/ InputSet
    \/ EnvTts("stop")

\* ... in a conversation that keeps listening
TickInit == AudioInit /\ keep_listening
TickSpec == TickInit /\ [][TickNext]_vars

\* the dispatch thread keeps running
FairTickSpec == TickSpec /\ WF_vars(LoopTick) /\ WF_vars(TickRun)

\* ... with network errors, which close the channel and bring the device to IDLE
MoveNext ==
    \/ TickNext
    \/ \E w \in Workers : \E o \in {"close_ok", "close_fail"} : CloseAudioChannel(w, o)
    \/ EnvNetworkError

MoveSpec == TickInit /\ [][MoveNext]_vars

\* the device while SPEAKING, with audio arriving and aborts
PlayNext ==
    \/ LoopSched
    \/ LoopCheckOutput
    \/ RunSetState
    \/ RunToggleImpl
    \/ \E w \in Workers : \E o \in OpenOutcomes(channel_open) : ConnectAndListenOpen(w, o)
    \/ \E w \in Workers : \E o \in {"send_ok", "send_raise"} : ConnectAndListenStart(w, o)
    \/ \E w \in Workers : \E o \in {"abort_sent", "abort_fail"} : ProcessAbortSend(w, o)
    \/ \E w \in Workers : ProcessAbortState(w)
    \/ IncomingCheck
    \/ IncomingWrite
    \/ IncomingSet
    \/ EnvToggle

PlaySpec == AbortInit /\ [][PlayNext]_vars

\* the device while SPEAKING, with texts sent to be spoken
TextNext ==
    \/ AbortNext
    \/ \E o \in SendTextOutcomes(channel_open, device_state) : EnvSendText(o)

TextSpec == AbortInit /\ [][TextNext]_vars

\* the device in any state, with toggle, stop and network errors
StateInit == Init \/ AbortInit
StateRun == RunSetState \/ RunToggleImpl \/ RunStopImpl
StateNext ==
    \/ ToggleNext
    \/ RunStopImpl
    \/ \E w \in Workers : \E o \in {"abort_sent", "abort_fail"} : ProcessAbortSend(w, o)
    \/ \E w \in Workers : ProcessAbortState(w)
    \/ EnvStopListening

StateSpec == StateInit /\ [][StateNext]_vars

\* the dispatch thread keeps running; the other threads need not
FairStateSpec == StateSpec /\ WF_vars(LoopSched) /\ WF_vars(StateRun)

\* the device idle or speaking, with aborts and tts starts
FlagInit == Init \/ AbortInit
FlagNext ==
    \/ AbortNext
    \/ RunTtsStart
    \/ \E w \in Workers : \E o \in {"connect_ok", "connect_false", "connect_raise"} :
            WwConnect(w, o)
    \/ \E w \in Workers : \E o \in {"open_ok", "open_false", "open_raise"} : WwOpen(w, o)
    \/ EnvTts("start")

FlagSpec == FlagInit /\ [][FlagNext]_vars

\* the device from start-up or while SPEAKING, with toggles, tts start
\* messages and incoming audio
TtsNext ==
    \/ LoopSched
    \/ LoopCheckOutput
    \/ RunSetState
    \/ RunToggleImpl
    \/ RunTtsStart
    \/ \E w \in Workers : \E o \in OpenOutcomes(channel_open) : ConnectAndListenOpen(w, o)
    \/ \E w \in Workers : \E o \in {"send_ok", "send_raise"} : ConnectAndListenStart(w, o)
    \/ \E w \in Workers : \E o \in {"abort_sent", "abort_fail"} : ProcessAbortSend(w, o)
    \/ \E w \in Workers : ProcessAbortState(w)
    \/ IncomingCheck
    \/ IncomingWrite
    \/ IncomingSet
    \/ EnvToggle
    \/ EnvTts("start")

TtsSpec == FlagInit /\ [][TtsNext]_vars

\* the device from start-up or while SPEAKING, with toggles and tts stop messages
StopRun == RunSetState \/ RunToggleImpl \/ RunTtsStop \/ RunDsc
StopNext ==
    \/ LoopSched
    \/ StopRun
    \/ \E w \in Workers : \E o \in OpenOutcomes(channel_open) : ConnectAndListenOpen(w, o)
    \/ \E w \in Workers : \E o \in {"send_ok", "send_raise"} : ConnectAndListenStart(w, o)
    \/ \E w \in Workers : \E o \in {"abort_sent", "abort_fail"} : ProcessAbortSend(w, o)
    \/ \E w \in Workers : ProcessAbortState(w)
    \/ EnvToggle
    \/ EnvTts("stop")

\* the dispatch thread keeps running; the other threads need not
FairStopSpec == FlagInit /\ [][StopNext]_vars /\ WF_vars(LoopSched) /\ WF_vars(StopRun)

\* the audio streams from start-up or while SPEAKING, the output stream active
\* or not: the channel opens again and again, until shutdown
StreamInit == Init \/ \E out \in {"active", "inactive"} : AbortInitWith(out)
StartStreamsRun ==
    \/ \E oi \in StartOutcomes \cup {"skip"} : \E ri \in ReinitResults(oi) :
            RunStartStreams(oi, ri)
    \/ \E oo \in StartOutcomes : \E ro \in ReinitResults(oo) : RunStartStreamsOutput(oo, ro)
StreamNext ==
    \/ LoopSched
    \/ LoopExit
    \/ StartStreamsRun
    \/ TriggerCheck
    \/ \E o \in StartOutcomes : \E r \in ReinitResults(o) : TriggerStart(o, r)
    \/ TriggerQueue
    \/ TriggerExit
    \/ InputExit
    \/ OnAudioChannelOpened
    \/ Shutdown

StreamSpec == StreamInit /\ [][StreamNext]_vars

\* the device while SPEAKING in a conversation that keeps listening, with the
\* two trigger threads, until shutdown; no audio arrives, the decode queue
\* stays empty
ShutLoop == LoopSched \/ LoopCheckInput \/ LoopExit
InputThread == InputCheck \/ InputSet \/ InputExit
TriggerThread == TriggerCheck \/ TriggerQueue \/ TriggerExit
ShutNext ==
    \/ ShutLoop
    \/ TickRun
    \/ InputThread
    \/ TriggerThread
    \/ EnvTts("stop")
    \/ Shutdown

\* the dispatch thread and the trigger threads keep running
FairShutSpec ==
    /\ TickInit
    /\ [][ShutNext]_vars
    /\ WF_vars(ShutLoop)
    /\ WF_vars(TickRun)
    /\ WF_vars(InputThread)
    /\ WF_vars(TriggerThread)

\* the toggle flow from start-up or while SPEAKING, with the display's mode switch
ModeNext == ToggleNext \/ \E auto_mode \in BOOLEAN : OnModeChanged(auto_mode)
ModeSpec == FlagInit /\ [][ModeNext]_vars

\* nothing is pending: no callback queued or running, no thread or coroutine alive
Quiescent ==
    /\ main_tasks = <<>>
    /\ batch = <<>>
    /\ task_pc = ""
    /\ workers = EmptyBag

(***************************************************************************)
(* C1  Exactly-once execution of scheduled callbacks.                      *)
(***************************************************************************)
\* how often callback i occurs in a sequence of tasks
CountIn(seq, i) == Cardinality({n \in 1..Len(seq) : seq[n].id = i})
CountExec(i)    == Cardinality({n \in 1..Len(exec_log) : exec_log[n].id = i})
Scheduled(i)    == i < next_id
Executed(i)     == CountExec(i) > 0

\* a callback handed to schedule() is, at every moment, in exactly one place:
\* waiting in the inbox, waiting in the running drain's batch, or executed once
SchedExactlyOnce ==
    \A i \in 1..MaxSched :
        Scheduled(i) => CountIn(main_tasks, i) + CountIn(batch, i) + CountExec(i) = 1

\* a callback appended after the copy-and-clear of a drain is neither run nor
\* about to be run by that drain: it runs in a later one
SchedLaterDrain ==
    \A i \in since_copy : CountIn(batch, i) = 0 /\ ~Executed(i)

\* every callback handed to schedule() so far has been executed
AllExecuted == \A i \in 1..MaxSched : Scheduled(i) => Executed(i)

\* C1: for any interleaving of schedule() calls (from producer threads and from
\* running tasks) with the dispatch loop's drains, no callback is lost and none
\* runs twice, a callback enqueued during a drain runs in a later drain, and
\* while the loop keeps running every callback is eventually executed (a
\* callback stays scheduled and stays executed, so this is: from some moment
\* on, all the scheduled callbacks have been executed).
C1_ExactlyOnce ==
    /\ [](SchedExactlyOnce /\ SchedLaterDrain)
    /\ <>[]AllExecuted

\* all callbacks have run, among them one enqueued while a drain was running
C1_Witness ==
    /\ Len(exec_log) = MaxSched
    /\ \E i \in enq_during : Executed(i)
    /\ \E i \in 1..MaxSched : i \notin enq_during

(***************************************************************************)
(* C2  Abort is idempotent.                                                *)
(***************************************************************************)
\* C2: while `aborted` stays set (no tts start resets it), calls of
\* abort_speaking, from one thread or from two, start at most one abort: one
\* process_abort thread, one abort control message.
C2_AbortAtMostOnce == abort_spawned <= 1 /\ sent["abort"] <= 1

(***************************************************************************)
(* C3  CONNECTING is never a resting state.                                *)
(***************************************************************************)
\* C3: whatever the connection attempt does (it succeeds, fails, raises or
\* times out), once every callback and thread of the flow has finished the
\* device is not left in CONNECTING.
C3_NeverStuckConnecting == Quiescent => device_state # CONNECTING

(***************************************************************************)
(* C4  set_device_state to the current state does nothing.                 *)
(***************************************************************************)
\* the callback `set_device_state(s)` runs while the device is in state s
NoopSetState == RunSetState /\ Head(batch).a = device_state

\* C4: a set_device_state call whose target is the current state changes no
\* state, display, emotion or detector, pushes no IoT state and notifies no
\* subscriber; subscribers are notified only of an actual change, with the new
\* state.
C4_IdempotentTransition ==
    /\ [][NoopSetState => UNCHANGED <<device_state, display_status,
                                      current_emotion, ww, iot_pushes, hist>>]_vars
    /\ [][device_state' = device_state
            => UNCHANGED <<display_status, iot_pushes, hist>>]_vars
    /\ [][hist' # hist => /\ device_state' # device_state
                          /\ hist' = Append(hist, device_state')]_vars

\* a network error in IDLE: both IDLE callbacks (366, 373) have run on the
\* dispatch thread and no subscriber has been notified
C4_Witness ==
    /\ main_tasks = <<>> /\ batch = <<>>
    /\ env_log = SetToBag({"net_error"})
    /\ state_writer = DISPATCH
    /\ device_state = IDLE
    /\ hist = <<>>

(***************************************************************************)
(* C5  device_state is written on the dispatch thread only.                *)
(***************************************************************************)
\* C5: every call of set_device_state, hence every write of device_state, is
\* made by the dispatch thread.
C5_StateWrittenByDispatch == state_writer \in {"none", DISPATCH}

(***************************************************************************)
(* C6  keep_listening and aborted are written on the dispatch thread only. *)
(***************************************************************************)
\* C6: every write of keep_listening and of aborted is made by the dispatch
\* thread.
C6_FlagsWrittenByDispatch == flag_writer \in {"none", DISPATCH}

(***************************************************************************)
(* C7  Scenario A: manual start from IDLE.                                 *)
(***************************************************************************)
\* the states the device has been in, the initial one first
StateSequence == <<IDLE>> \o hist

IsPrefix(s, t) == Len(s) <= Len(t) /\ \A n \in 1..Len(s) : s[n] = t[n]

\* one manual start, the channel opens, the input stream is reinitialized
ScenarioA == env_log = SetToBag({"start", "open_ok", "reinit_ok"})
\* one manual start, the channel opens
ScenarioAOpenOnly ==
    \/ ScenarioA
    \/ env_log = SetToBag({"start", "open_ok", "reinit_raise"})

ScenarioAResult ==
    /\ StateSequence = <<IDLE, CONNECTING, LISTENING>>
    /\ sent = [k \in SentKinds |-> IF k = "manual" THEN 1 ELSE 0]
    /\ alerts = 0

\* C7: a manual start in IDLE whose channel open succeeds and whose forced
\* input-stream reinitialization does not raise takes the device through
\* exactly IDLE, CONNECTING, LISTENING and sends exactly one start-listening
\* message, in MANUAL mode.
C7_ScenarioA ==
    /\ ScenarioA => IsPrefix(StateSequence, <<IDLE, CONNECTING, LISTENING>>)
    /\ (ScenarioA /\ Quiescent) => ScenarioAResult

\* the scenario has run to its end
C7_Witness == ScenarioA /\ Quiescent /\ device_state = LISTENING

\* C7 as stated: the channel opening successfully is all the scenario asks for
C7_ScenarioAAsStated == (ScenarioAOpenOnly /\ Quiescent) => ScenarioAResult

(***************************************************************************)
(* C8  Manual start failure.                                               *)
(***************************************************************************)
\* one manual start in IDLE that fails: the open returns false, raises or
\* times out, or the forced input-stream reinitialization raises
ManualStartFailed ==
    \/ \E f \in {"open_false", "open_raise", "open_timeout"} :
           env_log = SetToBag({"start", f})
    \/ env_log = SetToBag({"start", "open_ok", "reinit_raise"})

\* C8: after a failed manual start the device is back in IDLE, an alert has
\* been shown, no start-listening message has been sent and LISTENING was never
\* entered.
C8_ManualStartFailure ==
    (ManualStartFailed /\ Quiescent)
        => /\ device_state = IDLE
           /\ alerts >= 1
           /\ sent["manual"] = 0 /\ sent["auto"] = 0
           /\ \A n \in 1..Len(hist) : hist[n] # LISTENING

(***************************************************************************)
(* C9  Scenario B: toggle while LISTENING.                                 *)
(***************************************************************************)
\* the toggle callback runs while the device is LISTENING
ToggleInListening == RunToggleImpl /\ device_state = LISTENING

\* a close of the audio channel has been started and not finished
ClosePending == \E w \in Workers : w.kind = "close_audio_channel"

\* the IDLE transition of 906 is queued
IdleQueued ==
    \E n \in 1..Len(main_tasks \o batch) :
        (main_tasks \o batch)[n] = SetStateTask(IDLE, 906)

\* C9: a toggle handled in LISTENING starts a close of the audio channel and
\* queues the transition to IDLE; the device then is IDLE, whether the close
\* succeeds, fails or never finishes.
C9_ToggleWhileListening ==
    /\ [][ToggleInListening =>
            /\ workers' = workers (+) One(Worker("close_audio_channel", "close", NONE))
            /\ main_tasks' = Append(main_tasks, SetStateTask(IDLE, 906))
            /\ UNCHANGED device_state]_vars
    /\ IdleQueued ~> device_state = IDLE

\* IDLE reached from LISTENING by the toggle while the close has not finished
C9_Witness ==
    /\ hist = <<CONNECTING, LISTENING, IDLE>>
    /\ env_log = SetToBag({"toggle", "open_ok", "send_ok"}) (+) SetToBag({"toggle"})
    /\ ClosePending
    /\ device_state = IDLE

(***************************************************************************)
(* C10  Scenario C: wake word while SPEAKING with keep_listening.          *)
(***************************************************************************)
\* what may have happened: the conversation is in auto mode, one wake word was
\* detected, at most one tts stop came in, nothing raised
ScenarioCEvents == {"auto_mode", "wake_word", "tts_stop", "abort_sent", "send_ok",
                    "close_ok", "close_fail"}
ScenarioC ==
    /\ BagToSet(env_log) \subseteq ScenarioCEvents
    /\ BagIn("auto_mode", env_log)
    /\ CopiesIn("wake_word", env_log) = 1
    /\ CopiesIn("tts_stop", env_log) <= 1
    \* the wake word was handled while SPEAKING: it aborted the speech
    /\ abort_spawned = 1

\* C10: a wake word handled in SPEAKING with keep_listening set and the channel
\* open aborts the speech, takes the device to IDLE and then back to LISTENING
\* through the auto-listen flow, and no interleaving with a tts stop prevents
\* the re-entry: when everything has finished the device is LISTENING.
C10_WakeWordReentersListening ==
    (ScenarioC /\ Quiescent)
        => /\ device_state = LISTENING
           /\ \E n \in 1..Len(hist) : hist[n] = IDLE

(***************************************************************************)
(* C13  Scheduled callbacks run in FIFO order.                             *)
(***************************************************************************)
\* the callbacks have been executed in the order of their appends (identities
\* are given under the mutex, in append order)
ExecutedInAppendOrder ==
    \A m, n \in 1..Len(exec_log) : m < n => exec_log[m].id < exec_log[n].id

\* the running drain's batch is in append order and comes after all that ran
BatchInAppendOrder ==
    /\ \A m, n \in 1..Len(batch) : m < n => batch[m].id < batch[n].id
    /\ \A m \in 1..Len(exec_log) : \A n \in 1..Len(batch) :
           exec_log[m].id < batch[n].id

\* two callbacks scheduled by the same thread have run in submission order
PerThreadOrder ==
    \A m, n \in 1..Len(exec_log) :
        (exec_log[m].o = exec_log[n].o /\ exec_log[m].id < exec_log[n].id) => m < n

\* C13: scheduled callbacks run in FIFO order: within one drain in the order
\* they were appended, and across drains two callbacks scheduled by the same
\* thread run in their submission order.
C13_FifoOrder == ExecutedInAppendOrder /\ BatchInAppendOrder /\ PerThreadOrder

\* everything has run, in more than one drain, two of them of one producer thread
C13_Witness ==
    /\ Len(exec_log) = MaxSched
    /\ enq_during # {}
    /\ \E m, n \in 1..Len(exec_log) :
           m < n /\ exec_log[m].o = exec_log[n].o /\ exec_log[m].o \in Producers

(***************************************************************************)
(* C17  Task error isolation.                                              *)
(***************************************************************************)
\* C17: when a scheduled task raises during a drain the exception is caught:
\* the later tasks of the batch stay to be run, no callback is lost or run
\* twice, the dispatch loop goes on, and every callback is eventually executed.
C17_TaskErrorIsolation ==
    /\ [][RunGenRaise => /\ batch' = Tail(batch)
                         /\ loop_pc' = IF batch' = <<>> THEN "sched" ELSE "run"]_vars
    /\ [](SchedExactlyOnce /\ BatchInAppendOrder)
    /\ <>[]AllExecuted

\* a callback has just raised and the drain goes on with the rest of its batch
C17_Witness ==
    /\ exec_log # <<>>
    /\ exec_log[Len(exec_log)].raised
    /\ batch # <<>>
    /\ loop_pc = "run"

(***************************************************************************)
(* C11  The effects of an accepted abort precede the abort message.        *)
(***************************************************************************)
\* an abort_speaking call is accepted in this step
AbortAccepted == abort_spawned' = abort_spawned + 1

\* the abort message of a process_abort thread is sent in this step
AbortMessageSent == sent'["abort"] = sent["abort"] + 1

\* the send of the abort message fails or times out in this step
AbortSendFailed == CopiesIn("abort_fail", env_log') = CopiesIn("abort_fail", env_log) + 1

\* C11: an accepted abort_speaking call sets aborted, clears is_tts_playing and
\* flushes the pending output audio itself, before its process_abort thread
\* exists; every abort message is sent by such a thread, hence after these
\* effects; and a send that fails or times out undoes none of them.
C11_AbortEffectsFirst ==
    /\ [][AbortAccepted => aborted' /\ ~is_tts_playing' /\ ~audio_pending']_vars
    /\ [][AbortMessageSent =>
            /\ \E w \in Workers : Is(w, "process_abort", "send")
            /\ sent'["abort"] <= abort_spawned
            /\ aborted /\ ~is_tts_playing /\ ~audio_pending]_vars
    /\ [][AbortSendFailed =>
            /\ UNCHANGED <<aborted, is_tts_playing, audio_pending>>
            /\ aborted /\ ~is_tts_playing /\ ~audio_pending]_vars

\* the abort message could not be sent: the flags are set, nothing was sent
C11_Witness ==
    /\ BagIn("abort_fail", env_log)
    /\ sent["abort"] = 0
    /\ aborted /\ ~is_tts_playing /\ ~audio_pending

(***************************************************************************)
(* C12  When aborted changes.                                              *)
(***************************************************************************)
\* C12: aborted changes from false to true only while the device is SPEAKING,
\* and from true to false only when a tts start is handled.
C12_AbortedTransitions ==
    /\ [][(~aborted /\ aborted') => device_state = SPEAKING]_vars
    /\ [][(aborted /\ ~aborted') => RunTtsStart]_vars

(***************************************************************************)
(* C16  The dispatch thread never blocks.                                  *)
(***************************************************************************)
\* C16: no callback run by the dispatch thread waits for a result of the
\* session loop: the dispatch thread is never inside a wait.
C16_DispatchNeverBlocks == task_pc = ""

(***************************************************************************)
(* C19  The response to a network error.                                   *)
(***************************************************************************)
\* the session reports a network error in this step
NetErrorArrives == CopiesIn("net_error", env_log') = CopiesIn("net_error", env_log) + 1

CloseRequested ==
    workers' = workers (+) One(Worker("close_audio_channel", "close", NONE))

\* what the callback does in every state
NetErrorAlways ==
    /\ ~keep_listening'
    /\ ~WwPaused(ww')
    /\ main_tasks' # <<>>
    /\ \E n \in 1..Len(main_tasks') : main_tasks'[n] = SetStateTask(IDLE, 366)

\* the transition of 366 is queued
NetIdleQueued ==
    \E n \in 1..Len(main_tasks \o batch) :
        (main_tasks \o batch)[n] = SetStateTask(IDLE, 366)

\* C19: whenever the session reports a network error, in whatever device state,
\* keep_listening becomes false, the detector is resumed if it was paused, the
\* device reverts to IDLE and, unless the device is CONNECTING, a close of the
\* audio channel is requested.
C19_NetworkError ==
    /\ [][NetErrorArrives =>
            /\ NetErrorAlways
            /\ IF device_state # CONNECTING THEN CloseRequested
               ELSE UNCHANGED workers]_vars
    /\ NetIdleQueued ~> device_state = IDLE

\* a network error while SPEAKING: the device is back in IDLE, a close pending
C19_Witness ==
    /\ BagIn("net_error", env_log)
    /\ hist = <<IDLE>>
    /\ ~keep_listening
    /\ ClosePending
    /\ BagToSet(env_log) \subseteq {"net_error", "auto_mode", "manual_mode"}

\* C19 as stated: a close of the audio channel is requested in every state
C19_NetworkErrorAsStated ==
    [][NetErrorArrives => NetErrorAlways /\ CloseRequested]_vars

(***************************************************************************)
(* C20  Stop listening is effective only from LISTENING.                   *)
(***************************************************************************)
\* a stop-listening message is sent in this step
StopMessageSent == sent'["stop"] # sent["stop"]

\* C20: a stop request handled in LISTENING sends one stop-listening message
\* and takes the device to IDLE; handled in IDLE, CONNECTING or SPEAKING it
\* sends nothing and leaves the device state as it is; nothing else sends a
\* stop-listening message.
C20_StopOnlyFromListening ==
    /\ [][RunStopImpl =>
            IF device_state = LISTENING
            THEN /\ sent'["stop"] = sent["stop"] + 1
                 /\ device_state' = IDLE
                 /\ hist' = Append(hist, IDLE)
            ELSE UNCHANGED <<sent, device_state, hist>>]_vars
    /\ [][StopMessageSent => RunStopImpl /\ device_state = LISTENING]_vars

\* a stop handled in LISTENING: one message, the device in IDLE
C20_Witness ==
    /\ sent["stop"] = 1
    /\ hist = <<CONNECTING, LISTENING, IDLE>>
    /\ env_log = SetToBag({"toggle", "open_ok", "send_ok", "stop"})

(***************************************************************************)
(* C18  Every actual state change assigns the new state, runs the entry    *)
(* actions of that state and calls every registered subscriber with the    *)
(* new state, in registration order; a subscriber that raises neither      *)
(* stops the remaining ones from being called nor alters device_state.     *)
(***************************************************************************)
\* the calls recorded for a change are those of all of cbs, in order, with state s
AllNotified(calls, cbs, s) ==
    /\ Len(calls) = Len(cbs)
    /\ \A n \in 1..Len(cbs) : calls[n].cb = cbs[n] /\ calls[n].state = s

C18_SubscribersNotified ==
    [][device_state' # device_state =>
          /\ hist' = Append(hist, device_state')
          /\ display_status' = StatusText(device_state')
          /\ ww' = EntryWw(device_state', ww)
          /\ AllNotified(notified', on_state_changed_callbacks, device_state')]_vars

\* a change whose first subscriber raised: the second was still called with the
\* state the device is now in
C18_Witness ==
    /\ Len(notified) = 2
    /\ notified[1].raised
    /\ notified[2].state = device_state
    /\ device_state = LISTENING

(***************************************************************************)
(* C14  However many times AUDIO_OUTPUT_READY_EVENT was set, by the        *)
(* trigger thread and by _on_incoming_audio, before a tick looks at it,    *)
(* that tick calls _handle_output_audio exactly once: the event is set     *)
(* exactly when a set() has happened since the last call, every call       *)
(* consumes all the set() calls made so far, and calls come one at a time. *)
(***************************************************************************)
C14_EdgeTriggered ==
    /\ [](events[AUDIO_OUTPUT_READY_EVENT] <=> out_sets # <<>>)
    /\ [](out_handled <= out_total)
    /\ [][out_handled' # out_handled =>
             /\ out_handled' = out_handled + 1
             /\ out_sets # <<>>
             /\ out_collapsed' = out_sets
             /\ ~events'[AUDIO_OUTPUT_READY_EVENT]]_vars

\* one call has handled set() calls of both threads, and nothing is left to handle
C14_Witness ==
    /\ out_handled = 1
    /\ Len(out_collapsed) >= 2
    /\ {out_collapsed[n] : n \in 1..Len(out_collapsed)} = AudioThreads
    /\ ~events[AUDIO_OUTPUT_READY_EVENT]
    /\ loop_pc = "sched"

(***************************************************************************)
(* C15  The trigger thread never sets AUDIO_OUTPUT_READY_EVENT at a moment *)
(* when device_state is IDLE, however its check of the state interleaves   *)
(* with a transition to IDLE by the dispatch thread.                       *)
(***************************************************************************)
C15_NeverSetWhileIdle == <<"trigger", IDLE>> \notin out_set_in

(***************************************************************************)
(* C21  The toggle flow from IDLE.                                          *)
(***************************************************************************)
\* the connect_and_listen thread runs 871-882 in this step
ToggleStarts ==
    \E w \in Workers : Is(w, "connect_and_listen", "listen") /\ workers' = workers (-) One(w)

\* the start-listening message is handed to the session in this step (875)
ToggleStartSent == CopiesIn("send_ok", env_log') = CopiesIn("send_ok", env_log) + 1

\* the open of the thread fails, raises or times out in this step
ToggleOpenFails ==
    \E o \in {"open_false", "open_raise", "open_timeout"} :
        CopiesIn(o, env_log') = CopiesIn(o, env_log) + 1

\* the transition of a failed open is queued
ToggleFailQueued ==
    \E n \in 1..Len(main_tasks \o batch) : \E o \in {851, 856, 862} :
        (main_tasks \o batch)[n] = SetStateTask(IDLE, o)

\* the LISTENING transition of the flow is queued
ToggleListenQueued ==
    \E n \in 1..Len(main_tasks \o batch) :
        (main_tasks \o batch)[n] = SetStateTask(LISTENING, 878)

ReentryQueued ==
    \E n \in 1..Len(main_tasks \o batch) : (main_tasks \o batch)[n].k = "ToggleChat"

\* C22: the auto-listen flow is re-entered after an abort only when a wake word
\* was detected: an abort by the abort control of the display or by a toggle
\* never re-enters it.
C22_UserAbortNoReentry == ReentryQueued => BagIn("wake_word", env_log)

(***************************************************************************)
(* C23  The start flows fire once per departure from IDLE.                  *)
(***************************************************************************)
\* the departures from IDLE so far, and the one a start flow may have queued
\* while the device is still IDLE
Departures ==
    Cardinality({n \in 1..Len(hist) : hist[n] = CONNECTING})
        + (IF device_state = IDLE THEN 1 ELSE 0)

\* C23: however the start requests are timed, no more start-listening messages
\* are sent than the device has left IDLE: a second request handled before the
\* CONNECTING transition of the first is applied sends nothing.
C23_StartOncePerDeparture == sent[ManualMode] + sent["auto"] <= Departures

(***************************************************************************)
(* C24  A release of the push-to-talk button is never lost.                 *)
(***************************************************************************)
\* the callbacks still to run, in the order in which they will run
ToRun == batch \o main_tasks

\* stop_listening() was requested after start_listening(): both callbacks are
\* waiting (or the first is running), the stop behind the start
StopAfterStart ==
    \E i, j \in 1..Len(ToRun) :
        i < j /\ ToRun[i].k = "StartImpl" /\ ToRun[j].k = "StopImpl"

\* C24: when the release follows the press, the device does not stay in
\* LISTENING, whatever the timing of the release.
C24_ReleaseNeverLost == [](StopAfterStart => <>[](device_state # LISTENING))

(***************************************************************************)
(* C25  An abort requested while SPEAKING always takes effect.              *)
(***************************************************************************)
\* the device enters SPEAKING in this step
EntersSpeaking == device_state # SPEAKING /\ device_state' = SPEAKING

\* C25: whatever aborts, texts sent to be spoken and tts messages came before,
\* the device never enters SPEAKING with aborted still true, so that
\* abort_speaking accepts an abort requested while SPEAKING.
C25_AbortedFreshOnSpeaking == [][EntersSpeaking => ~aborted']_vars

(***************************************************************************)
(* C26  No playback between an accepted abort and the exit from SPEAKING.   *)
(***************************************************************************)
\* C26: while the device is SPEAKING with an abort accepted, is_tts_playing is
\* false: neither audio that arrives nor an AUDIO_OUTPUT_READY event handled
\* in that window restarts playback.
C26_NoPlaybackAfterAbort == (aborted /\ device_state = SPEAKING) => ~is_tts_playing

(***************************************************************************)
(* C27  The dispatch tick: fixed order, clear before handle.                *)
(***************************************************************************)
\* the dispatch thread is inside _process_scheduled_tasks
InDrain == loop_pc \in {"drain", "run"}

\* the tick moves on in this step
TickMoves == loop_pc' # loop_pc

\* the order of a tick: SCHEDULE first, then AUDIO_INPUT_READY, then
\* AUDIO_OUTPUT_READY, each looked at when its turn comes
TickInOrder ==
    /\ loop_pc = "sched" =>
          /\ loop_pc' = "drain" <=> events[SCHEDULE_EVENT]
          /\ loop_pc' = "input" => events[AUDIO_INPUT_READY_EVENT]
          /\ loop_pc' = "audio" =>
                ~events[AUDIO_INPUT_READY_EVENT] /\ events[AUDIO_OUTPUT_READY_EVENT]
    /\ InDrain =>
          /\ loop_pc' \in {"run", "input", "audio", "sched"}
          /\ loop_pc' = "input" => events[AUDIO_INPUT_READY_EVENT]
          /\ loop_pc' = "audio" =>
                ~events[AUDIO_INPUT_READY_EVENT] /\ events[AUDIO_OUTPUT_READY_EVENT]
          /\ loop_pc' = "sched" =>
                ~events[AUDIO_INPUT_READY_EVENT] /\ ~events[AUDIO_OUTPUT_READY_EVENT]
    /\ loop_pc = "input" =>
          /\ loop_pc' \in {"audio", "sched"}
          /\ loop_pc' = "audio" <=> events[AUDIO_OUTPUT_READY_EVENT]
    /\ loop_pc = "audio" => loop_pc' = "sched"

\* a handler is entered in this step with its flag cleared
ClearedBeforeHandled ==
    /\ loop_pc' = "drain" => ~events'[SCHEDULE_EVENT]
    /\ in_handled' # in_handled =>
          events[AUDIO_INPUT_READY_EVENT] /\ ~events'[AUDIO_INPUT_READY_EVENT]
    /\ out_handled' # out_handled =>
          events[AUDIO_OUTPUT_READY_EVENT] /\ ~events'[AUDIO_OUTPUT_READY_EVENT]

\* C27: a tick looks at SCHEDULE, AUDIO_INPUT_READY and AUDIO_OUTPUT_READY in
\* this order; a flag that is set is cleared before its handler runs; a flag
\* set while the scheduled callbacks run stays set until the drain is over;
\* and every flag that is set is handled by a later tick.
C27_TickOrder ==
    /\ [][TickMoves => TickInOrder /\ ClearedBeforeHandled]_vars
    /\ [][InDrain /\ events[SCHEDULE_EVENT] => events'[SCHEDULE_EVENT]]_vars
    /\ \A e \in EventTypes : events[e] ~> ~events[e]

\* the SCHEDULE flag was set again while a callback of the drain runs, in a
\* run in which the output handler has already been called
C27_Witness ==
    /\ loop_pc = "run"
    /\ events[SCHEDULE_EVENT]
    /\ out_handled >= 1

(***************************************************************************)
(* C28  Audio is moved only in the matching state.                          *)
(***************************************************************************)
\* C28: the input handler hands a frame to the session only when it runs in
\* LISTENING with the channel open, one frame at most per handled event; the
\* input trigger goes on to set its event only when it has seen LISTENING; the
\* output handler marks playback active and plays only when it runs in
\* SPEAKING.
C28_AudioInMatchingState ==
    /\ [][frames_sent' # frames_sent =>
            /\ frames_sent' = frames_sent + 1
            /\ in_handled' = in_handled + 1
            /\ device_state = LISTENING
            /\ channel_open]_vars
    /\ [](frames_sent <= in_handled)
    /\ [][in_pc = "idle" /\ in_pc' = "set" => device_state = LISTENING]_vars
    /\ [][in_total' # in_total => in_pc = "set"]_vars
    /\ [][out_handled' # out_handled /\ device_state # SPEAKING =>
            UNCHANGED <<is_tts_playing, audio_pending>>]_vars
    /\ [][~is_tts_playing /\ is_tts_playing' =>
            device_state = SPEAKING /\ out_handled' = out_handled + 1]_vars

\* one input event was handled in LISTENING and its frame sent; another was
\* handled after the device had left LISTENING and moved nothing
C28_Witness ==
    /\ frames_sent = 1
    /\ in_handled = 2
    /\ device_state = IDLE
    /\ ~events[AUDIO_INPUT_READY_EVENT]
    /\ loop_pc = "sched"

(***************************************************************************)
(* C29  The wake-word flow: failures of connect and of the channel open.    *)
(***************************************************************************)
\* the coroutine _connect_and_start_listening ends in this step without having
\* sent start-listening: connect or open_audio_channel failed
WakeFlowFails ==
    /\ \E w \in Workers :
          w.kind = "connect_and_start_listening" /\ workers' = workers (-) One(w)
    /\ sent' = sent

\* the transition to IDLE of 1123 or 1132 has been handed to schedule()
WakeIdleQueued ==
    \E n \in 1..Len(main_tasks) : \E o \in {1123, 1132} :
        main_tasks[n] = SetStateTask(IDLE, o)

\* C29: when connect or the open of the audio channel fails after a wake word
\* detected in IDLE, the detector is resumed, an alert is raised and the device
\* reverts to IDLE, keep_listening untouched.
C29_WakeFlowFailure ==
    [][WakeFlowFails =>
          /\ alerts' = alerts + 1
          /\ ~WwPaused(ww')
          /\ WakeIdleQueued'
          /\ UNCHANGED keep_listening]_vars

(***************************************************************************)
(* C30  The wake-word detector on state entry.                              *)
(***************************************************************************)
\* the device enters state s in this step
Enters(s) == device_state # s /\ device_state' = s

\* C30: on every actual entry into LISTENING a running detector is paused; on
\* every actual entry into IDLE or SPEAKING a paused detector is resumed; in
\* all other cases the detector is left as it is, and the entry into
\* CONNECTING changes nothing but the state and the displayed status.
C30_DetectorOnEntry ==
    /\ [][Enters(LISTENING) =>
            ww' = (IF WwIsRunning(ww) THEN "paused" ELSE ww)]_vars
    /\ [][Enters(IDLE) \/ Enters(SPEAKING) =>
            ww' = (IF WwPaused(ww) THEN "running" ELSE ww)]_vars
    /\ [][Enters(CONNECTING) =>
            /\ display_status' = "Connecting..."
            /\ UNCHANGED <<ww, current_emotion, iot_pushes, is_tts_playing,
                           audio_pending, keep_listening, aborted>>]_vars

\* the detector, paused while the device listened, runs again now that the
\* device has entered SPEAKING
C30_Witness ==
    /\ hist = <<CONNECTING, LISTENING, SPEAKING>>
    /\ device_state = SPEAKING
    /\ ww = "running"

(***************************************************************************)
(* C31  The detector after an abort.                                        *)
(***************************************************************************)
\* C31: once an abort has completed (nothing is pending any more) and the
\* device rests in IDLE, the detector that abort_speaking paused has been
\* resumed, also when the abort was requested while the device was IDLE.
C31_DetectorResumedAfterAbort ==
    (Quiescent /\ device_state = IDLE /\ BagIn("abort", env_log)) => ~WwPaused(ww)

(***************************************************************************)
(* C39  No lost wakeup.                                                     *)
(***************************************************************************)
\* no producer stands between its append (290) and its set (292)
NoScheduleInFlight == \A p \in Producers : prod_pc[p] = "idle"

\* C39: whenever the task queue is non-empty and no schedule() call is between
\* its append and its flag set, the SCHEDULE flag is set or the loop has
\* cleared it and has not yet drained; the loop never rests with a pending
\* task and a clear flag.
C39_NoLostWakeup ==
    (main_tasks # <<>> /\ NoScheduleInFlight)
        => (events[SCHEDULE_EVENT] \/ loop_pc = "drain")

\* a task was appended after the loop cleared the flag and before it drained
C39_Witness ==
    /\ main_tasks # <<>>
    /\ NoScheduleInFlight
    /\ loop_pc = "drain"
    /\ ~events[SCHEDULE_EVENT]
    /\ exec_log # <<>>

(***************************************************************************)
(* C35  tts start.                                                          *)
(***************************************************************************)
\* the dispatch thread runs _handle_tts_start in this step
TtsStartHandled == Starts("TtsStart") /\ batch' # batch

\* C35: handling tts start resets aborted, marks tts as playing and clears the
\* output queue in every state; it schedules SPEAKING exactly when the device
\* is IDLE or LISTENING at that time, and it changes no state itself: in
\* CONNECTING (and SPEAKING) nothing is scheduled.
C35_TtsStart ==
    [][TtsStartHandled =>
          /\ ~aborted'
          /\ is_tts_playing'
          /\ ~audio_pending'
          /\ device_state' = device_state
          /\ main_tasks' = main_tasks \o
                (IF device_state \in {IDLE, LISTENING}
                 THEN <<SetStateTask(SPEAKING, 441)>> ELSE <<>>)]_vars

\* tts start was handled while CONNECTING: the device is still CONNECTING, tts
\* plays and no SPEAKING is scheduled
C35_Witness ==
    /\ device_state = CONNECTING
    /\ hist = <<CONNECTING>>
    /\ is_tts_playing
    /\ BagIn("tts_start", env_log)
    /\ \A i \in 1..Len(ToRun) : ToRun[i].k \notin {"TtsStart", "SetState"}

(***************************************************************************)
(* C37  delayed_state_change after the device left SPEAKING.                *)
(***************************************************************************)
\* the dispatch thread runs delayed_state_change in this step
DscHandled == Starts("Dsc") /\ batch' # batch

\* C37: a delayed_state_change that runs when the device is no longer SPEAKING
\* sends no start-listening and schedules no LISTENING.
C37_DscOnlyWhileSpeaking ==
    [][(DscHandled /\ device_state # SPEAKING) =>
          /\ sent' = sent
          /\ \A i \in 1..Len(main_tasks') :
                i > Len(main_tasks) => main_tasks'[i].a # LISTENING]_vars

(***************************************************************************)
(* C34  The transitions of device_state.                                    *)
(***************************************************************************)
\* C34: device_state changes only along IDLE->CONNECTING, CONNECTING->LISTENING,
\* CONNECTING->IDLE, LISTENING->IDLE, LISTENING->SPEAKING, IDLE->SPEAKING,
\* SPEAKING->LISTENING and SPEAKING->IDLE, under any interleaving.
C34_OnlyListedTransitions ==
    [][device_state' # device_state =>
          <<device_state, device_state'>> \in
              { <<IDLE, CONNECTING>>, <<CONNECTING, LISTENING>>, <<CONNECTING, IDLE>>,
                <<LISTENING, IDLE>>, <<LISTENING, SPEAKING>>, <<IDLE, SPEAKING>>,
                <<SPEAKING, LISTENING>>, <<SPEAKING, IDLE>> }]_vars

(***************************************************************************)
(* C38  _on_mode_changed.                                                   *)
(***************************************************************************)
\* _on_mode_changed(auto_mode) is called in this step
ModeChangeCalled(auto_mode) ==
    CopiesIn(ModeRequest(auto_mode), env_log') = CopiesIn(ModeRequest(auto_mode), env_log) + 1
\* ... and returns ok
ModeChangeReturned(ok) ==
    /\ CopiesIn(ModeReturn(ok), env_log') = CopiesIn(ModeReturn(ok), env_log) + 1
    /\ CopiesIn(ModeReturn(~ok), env_log') = CopiesIn(ModeReturn(~ok), env_log)

\* C38: _on_mode_changed takes effect only in IDLE: there it sets keep_listening
\* to the requested mode and returns True; in CONNECTING, LISTENING and SPEAKING
\* it returns False, raises an alert and leaves keep_listening unchanged; it
\* never changes device_state.
C38_ModeChangeOnlyInIdle ==
    [][\A auto_mode \in BOOLEAN :
          ModeChangeCalled(auto_mode) =>
              /\ device_state' = device_state
              /\ IF device_state = IDLE
                 THEN /\ keep_listening' = auto_mode
                      /\ ModeChangeReturned(TRUE)
                      /\ alerts' = alerts
                 ELSE /\ keep_listening' = keep_listening
                      /\ ModeChangeReturned(FALSE)
                      /\ alerts' = alerts + 1]_vars

\* a switch to manual mode was refused while the device was SPEAKING in auto mode
C38_Witness ==
    /\ device_state = SPEAKING
    /\ hist = <<>>
    /\ keep_listening
    /\ BagIn("set_manual", env_log)
    /\ BagIn("mode_false", env_log)
    /\ alerts = 1

(***************************************************************************)
(* C36  tts stop.                                                           *)
(***************************************************************************)
\* the dispatch thread runs _handle_tts_stop in this step
TtsStopHandled == Starts("TtsStop") /\ batch' # batch
\* a delayed_state_change is scheduled and has not run
DscPending == \E i \in 1..Len(ToRun) : ToRun[i].k = "Dsc"
\* the state change of delayed_state_change to s is scheduled and not applied
DscStatePending(s) ==
    \E i \in 1..Len(ToRun) : ToRun[i] = SetStateTask(s, IF s = LISTENING THEN 477 ELSE 479)

\* C36: a tts stop handled while SPEAKING schedules delayed_state_change, which
\* eventually runs: it clears is_tts_playing and, when keep_listening, sends
\* start-listening (AUTO_STOP) and schedules LISTENING, else schedules IDLE; the
\* scheduled state is eventually the device's state.  A tts stop handled in
\* IDLE, CONNECTING or LISTENING changes nothing.
C36_TtsStop ==
    /\ [][TtsStopHandled =>
            /\ UNCHANGED <<devVars, sent, workers>>
            /\ IF device_state = SPEAKING
               THEN main_tasks' = main_tasks \o <<Task("Dsc", "", 0, 483)>>
               ELSE UNCHANGED <<main_tasks, events>>]_vars
    /\ [][DscHandled =>
            /\ ~is_tts_playing'
            /\ IF keep_listening
               THEN /\ sent' = [sent EXCEPT !["auto"] = @ + 1]
                    /\ main_tasks' = main_tasks \o <<SetStateTask(LISTENING, 477)>>
               ELSE /\ sent' = sent
                    /\ main_tasks' = main_tasks \o <<SetStateTask(IDLE, 479)>>]_vars
    /\ DscPending ~> ~DscPending
    /\ DscStatePending(LISTENING) ~> (device_state = LISTENING)
    /\ DscStatePending(IDLE) ~> (device_state = IDLE)

\* a tts stop while SPEAKING in auto mode has brought the device to LISTENING
C36_Witness ==
    /\ device_state = LISTENING
    /\ hist = <<LISTENING>>
    /\ sent["auto"] = 1
    /\ ~is_tts_playing
    /\ env_log = SetToBag({"auto_mode", "tts_stop"})

(***************************************************************************)
(* C33  Starting the audio streams again.                                   *)
(***************************************************************************)
\* start_stream() calls of _start_audio_streams on stream `which` that found the
\* stream active, that failed, and the reinitializations of the stream
RestartsOf(which) == CopiesIn(StreamEvent(which, "restart"), env_log)
FailsOf(which) == CopiesIn(StreamEvent(which, "start_fail"), env_log)
ReinitsOf(which) == CopiesIn(StreamEvent(which, "reinit"), env_log)

\* C33: however often the channel-opened callback fires, at most one input and
\* one output trigger thread are alive; _start_audio_streams does not start a
\* stream that is already active, and has reinitialized a stream only after its
\* start attempt failed.
C33_RestartIdempotent ==
    /\ streams.input_alive <= 1
    /\ streams.output_alive <= 1
    /\ \A which \in {"input", "output"} :
          /\ RestartsOf(which) = 0
          /\ ReinitsOf(which) = FailsOf(which)

(***************************************************************************)
(* C32  Shutdown.                                                           *)
(***************************************************************************)
\* the dispatch loop and both trigger threads have ended
AllExited ==
    /\ loop_pc = "exited"
    /\ streams.input_event_thread # "alive"
    /\ streams.output_event_thread # "alive"

\* C32: once shutdown() has cleared running, the dispatch loop and the trigger
\* threads begin no new iteration, they all exit, and after the loop has exited
\* no event handler and no scheduled task is started.
C32_ShutdownEndsLoops ==
    /\ [][~running =>
            /\ loop_pc = "sched" => loop_pc' \in {"sched", "exited"}
            /\ in_pc = "idle" => in_pc' \in {"idle", "exited"}
            /\ trig_pc["trigger"] = "idle" => trig_pc'["trigger"] \in {"idle", "exited"}]_vars
    /\ [][loop_pc = "exited" =>
            UNCHANGED <<loop_pc, batch, task_pc, in_handled, out_handled>>]_vars
    /\ ~running ~> AllExited

\* shutdown came while the loop was running a batch and the input trigger was
\* between its check and its set; now all have exited
C32_Witness ==
    /\ AllExited
    /\ in_total > 0
    /\ in_handled > 0
    /\ device_state = LISTENING

=============================================================================
